---- MODULE Spec2Model ----
(***************************************************************************)
(* libgav1: the frame-parallel decode pipeline of DecoderImpl.             *)
(*                                                                         *)
(* src/src/decoder_impl.h declares the state (TemporalUnit, EncodedFrame,  *)
(* temporal_units_, failure_status_, output_frame_, ...) and documents the *)
(* operations; the bodies of EnqueueFrame, DequeueFrame, SignalFailure,    *)
(* ParseAndSchedule and DecodeFrame live in decoder_impl.cc.  They are     *)
(* modelled from the header's comments and from sections 3, 4.1, 5 and 7   *)
(* of the specification.                                                   *)
(* The model covers frame parallel mode (frame_thread_pool_ != nullptr     *)
(* after the first EnqueueFrame call).                                     *)
(***************************************************************************)
EXTENDS Integers, Sequences, FiniteSets, TLC

\* ---------------------------------------------------------------- bounds
\* Number of temporal units the application offers in a run of Spec (each
\* with at most one coded frame).
MaxUnits == 2
\* Largest number of coded frames (layers) of the temporal unit in a run of
\* SpecLayers.
MaxFrames == 3
\* Largest thread count of frame_thread_pool_.
MaxThreads == 2
\* Number of RefCountedBuffers owned by buffer_pool_.
NumBuffers == 3

Buffers == 1..NumBuffers

kStatusOk == "kStatusOk"
kStatusTryAgain == "kStatusTryAgain"
kStatusNothingToDequeue == "kStatusNothingToDequeue"
\* Fatal codes: out of memory (queue / pool initialisation), malformed
\* bitstream (parser), no free frame buffer (parser), decode error (worker).
FatalStatus == {"kStatusOutOfMemory", "kStatusBitstreamError",
                "kStatusResourceExhausted", "kStatusUnknownError"}

VARIABLES
  scenario,          \* the input: for each temporal unit the application will
                     \* offer, the largest number of coded frames it may hold
  settings,          \* DecoderSettings: blocking_dequeue, output_all_layers
  seen_first_frame_, \* DecoderImpl::seen_first_frame_
  num_threads,       \* frame_thread_pool_->num_threads(), 0: no pool
  capacity,          \* capacity of the temporal_units_ queue, 0: not initialised
  temporal_units_,   \* Queue<TemporalUnit>, head first
  failure_status_,   \* DecoderImpl::failure_status_
  output_frame_,     \* buffer held on behalf of buffer_, 0: nullptr
  state_,            \* DecoderState: buffer in a reference slot, 0: empty
                     \* (the model keeps one of the eight slots)
  refcount,          \* reference count of every RefCountedBuffer
  app_pc,            \* position of the application thread
  ret,               \* the application thread's current / last API call
  next_id,           \* number of temporal units pushed so far
  out_log,           \* history: what each successful DequeueFrame handed out
  decode_log,        \* history: the frames in the order their decoding finished
  released,          \* history: release_input_buffer calls per temporal unit
  \* PostFilter
  pf_cfg,            \* the frame and the settings the PostFilter is built for
  pf_pc,             \* position of the thread that calls into the PostFilter
  pf_jobs,           \* the jobs given to thread_pool_ so far and their state
  pf_pending,        \* value of the BlockingCounter the caller waits on
  pf_log,            \* history: the stage invocations in the order they began
  \* functions of motion_vector.cc and post_filter.cc taken on their own
  fn_call,           \* the function and its arguments
  fn_result          \* what it has left behind; done once it has returned

decoder_vars ==
  <<scenario, settings, seen_first_frame_, num_threads, capacity,
    temporal_units_, failure_status_, output_frame_, state_, refcount, app_pc,
    ret, next_id, out_log, decode_log, released>>
pf_vars == <<pf_cfg, pf_pc, pf_jobs, pf_pending, pf_log>>
fn_vars == <<fn_call, fn_result>>
vars == <<decoder_vars, pf_vars, fn_vars>>

\* No PostFilter has been built / no function is looked at on its own / no
\* decoder has been created.
PostFilterOff ==
  /\ pf_cfg = "none"
  /\ pf_pc = "none"
  /\ pf_jobs = << >>
  /\ pf_pending = 0
  /\ pf_log = << >>
FunctionOff ==
  /\ fn_call = [function |-> "none"]
  /\ fn_result = [done |-> FALSE]

\* ------------------------------------------------------- reference counts
\* Copying a RefCountedBufferPtr (0 is nullptr).
AddRef(rc, b) == IF b = 0 THEN rc ELSE [rc EXCEPT ![b] = @ + 1]
\* Destroying / resetting a RefCountedBufferPtr.  The buffer goes back to the
\* pool when the count reaches zero.
Release(rc, b) == IF b = 0 THEN rc ELSE [rc EXCEPT ![b] = @ - 1]
\* BufferPool::GetFreeBuffer: the first buffer that is not in use, 0 if none.
GetFreeBuffer(rc) ==
  IF \E b \in Buffers : rc[b] = 0
    THEN CHOOSE b \in Buffers : rc[b] = 0 /\ \A c \in Buffers : c < b => rc[c] # 0
    ELSE 0

\* ------------------------------------------------------------ data model
\* Variants of the TemporalUnit constructor with one member initialised
\* wrongly: decoded(true), has_displayable_frame(true),
\* released_input_buffer(true), decoded_count(1), and the data members left
\* out.
TemporalUnitBornDecoded(id) ==
  [ id |-> id, decoded |-> TRUE, status |-> kStatusOk,
    has_displayable_frame |-> FALSE, output_frame_position |-> -1,
    frames |-> << >>, decoded_count |-> 0, output_layers |-> << >>,
    output_layer_count |-> 0, released_input_buffer |-> FALSE ]

TemporalUnitBornDisplayable(id) ==
  [ id |-> id, decoded |-> FALSE, status |-> kStatusOk,
    has_displayable_frame |-> TRUE, output_frame_position |-> -1,
    frames |-> << >>, decoded_count |-> 0, output_layers |-> << >>,
    output_layer_count |-> 0, released_input_buffer |-> FALSE ]

TemporalUnitBornReleased(id) ==
  [ id |-> id, decoded |-> FALSE, status |-> kStatusOk,
    has_displayable_frame |-> FALSE, output_frame_position |-> -1,
    frames |-> << >>, decoded_count |-> 0, output_layers |-> << >>,
    output_layer_count |-> 0, released_input_buffer |-> TRUE ]

TemporalUnitBornCounted(id) ==
  [ id |-> id, decoded |-> FALSE, status |-> kStatusOk,
    has_displayable_frame |-> FALSE, output_frame_position |-> -1,
    frames |-> << >>, decoded_count |-> 1, output_layers |-> << >>,
    output_layer_count |-> 0, released_input_buffer |-> FALSE ]

TemporalUnitWithoutData(id) ==
  [ id |-> 0, decoded |-> FALSE, status |-> kStatusOk,
    has_displayable_frame |-> FALSE, output_frame_position |-> -1,
    frames |-> << >>, decoded_count |-> 0, output_layers |-> << >>,
    output_layer_count |-> 0, released_input_buffer |-> FALSE ]

\* TemporalUnit::TemporalUnit(data, size, user_private_data,
\* buffer_private_data).  id stands for data / user_private_data /
\* buffer_private_data.
TemporalUnit(id) ==
  [ id |-> id,
    decoded |-> FALSE,
    status |-> kStatusOk,
    has_displayable_frame |-> FALSE,
    output_frame_position |-> -1,
    frames |-> << >>,
    decoded_count |-> 0,
    output_layers |-> << >>,
    output_layer_count |-> 0,
    released_input_buffer |-> FALSE ]

\* EncodedFrame::EncodedFrame: copies the DecoderState (and with it the
\* reference held by the slot) and the RefCountedBufferPtr of the frame.
\* job is the state of the frame's job in frame_thread_pool_ and worker the
\* thread of the pool that runs it (0: none).
EncodedFrame(state, frame, position_in_temporal_unit, show) ==
  [ state |-> state,
    frame |-> frame,
    position_in_temporal_unit |-> position_in_temporal_unit,
    show |-> show,
    job |-> "queued",
    worker |-> 0 ]

\* The constructor without the copy of the frame pointer.
EncodedFrameRefsStateOnly(rc, state, frame) == AddRef(rc, state)

\* The references an EncodedFrame takes when it is constructed.
EncodedFrameRefs(rc, state, frame) == AddRef(AddRef(rc, state), frame)

\* operator< with the comparison the other way round.
OutputLayerLessAscending(lhs, rhs) ==
  lhs.position_in_temporal_unit < rhs.position_in_temporal_unit

\* OutputLayer::operator<
OutputLayerLess(lhs, rhs) ==
  lhs.position_in_temporal_unit > rhs.position_in_temporal_unit

\* std::sort(output_layers, output_layers + output_layer_count) with
\* OutputLayer::operator<.
RECURSIVE InsertLayer(_, _)
InsertLayer(sorted, layer) ==
  IF sorted = << >> THEN <<layer>>
  ELSE IF OutputLayerLess(layer, Head(sorted)) THEN <<layer>> \o sorted
  ELSE <<Head(sorted)>> \o InsertLayer(Tail(sorted), layer)

RECURSIVE SortLayers(_)
SortLayers(layers) ==
  IF layers = << >> THEN << >>
  ELSE InsertLayer(SortLayers(Tail(layers)), Head(layers))

\* GetMaxAllowedFrames one too large.
GetMaxAllowedFramesPlusOne(pool_threads) ==
  IF pool_threads # 0 THEN pool_threads + 1 ELSE 1

\* DecoderImpl::GetMaxAllowedFrames; pool_threads is
\* frame_thread_pool_->num_threads(), 0 when frame_thread_pool_ is nullptr.
GetMaxAllowedFrames(pool_threads) ==
  IF pool_threads # 0 THEN pool_threads ELSE 1

\* HasFailure comparing with the wrong status code.
HasFailureWrongCode == failure_status_ = kStatusTryAgain

\* DecoderImpl::HasFailure
HasFailure == failure_status_ # kStatusOk

\* ----------------------------------------------------------------- Init
\* ret: the call (op), the status it returns, the buffer handed out (out, 0:
\* nullptr), the temporal unit pushed or served (unit), and what held when the
\* call was made: a failure was recorded (began_failed), the queue was full.
NoCall == [op |-> "none", status |-> kStatusOk, out |-> 0, unit |-> 0,
           began_failed |-> FALSE, full |-> FALSE]

Start(limits) ==
  /\ scenario = limits
  /\ settings \in [blocking_dequeue : BOOLEAN, output_all_layers : BOOLEAN]
  /\ seen_first_frame_ = FALSE
  /\ num_threads = 0
  /\ capacity = 0
  /\ temporal_units_ = << >>
  /\ failure_status_ = kStatusOk
  /\ output_frame_ = 0
  /\ state_ = 0
  /\ refcount = [b \in Buffers |-> 0]
  /\ app_pc = "idle"
  /\ ret = NoCall
  /\ next_id = 0
  /\ out_log = << >>
  /\ decode_log = << >>
  /\ released = [id \in 1..Len(limits) |-> 0]
  /\ PostFilterOff
  /\ FunctionOff

\* No DecoderImpl: the PostFilter and the functions are looked at on their
\* own.
DecoderOff ==
  /\ scenario = << >>
  /\ settings = [blocking_dequeue |-> FALSE, output_all_layers |-> FALSE]
  /\ seen_first_frame_ = FALSE
  /\ num_threads = 0
  /\ capacity = 0
  /\ temporal_units_ = << >>
  /\ failure_status_ = kStatusOk
  /\ output_frame_ = 0
  /\ state_ = 0
  /\ refcount = [b \in Buffers |-> 0]
  /\ app_pc = "none"
  /\ ret = NoCall
  /\ next_id = 0
  /\ out_log = << >>
  /\ decode_log = << >>
  /\ released = << >>

\* Single-frame temporal units.
Init == Start([i \in 1..MaxUnits |-> 1])

\* One temporal unit of several frames (layers).
InitLayers == Start(<<MaxFrames>>)

\* ----------------------------------------------------- SignalFailure
\* SignalFailure(status): nothing for kStatusOk and kStatusTryAgain; otherwise
\* records the failure (the first error wins) and waits for the workers.
SignalFailureStatus(current, status) ==
  IF status \in {kStatusOk, kStatusTryAgain} THEN current
  ELSE IF current = kStatusOk THEN status ELSE current

\* Where the application thread is after calling SignalFailure(status).
SignalFailurePc(status) ==
  IF status \in {kStatusOk, kStatusTryAgain} THEN "idle" ELSE "signal"

\* ----------------------------------------------------------- the parser
\* The coded frames of a temporal unit as the parser sees them: whether the
\* frame is shown and whether it refreshes the reference slot.
FrameHeaders == {h \in [show : BOOLEAN, refresh : BOOLEAN] : h.show \/ h.refresh}
UnitContents(max_frames) == UNION {[1..k -> FrameHeaders] : k \in 0..max_frames}

\* DecoderState::UpdateReferenceFrames for the modelled slot.
UpdateReferenceFrames(acc, frame, refresh) ==
  IF refresh
    THEN [acc EXCEPT !.state = frame,
                     !.rc = AddRef(Release(acc.rc, acc.state), frame)]
    ELSE acc

\* One iteration of the parse loop of ParseAndSchedule: ParseOneFrame takes a
\* free buffer for current_frame, an EncodedFrame is emplaced, the reference
\* slot is updated, current_frame goes out of scope.
ParseOneFrame(acc, header, position) ==
  LET current_frame == GetFreeBuffer(acc.rc) IN
  IF current_frame = 0
    THEN [acc EXCEPT !.status = "kStatusResourceExhausted"]
    ELSE
      LET rc1 == [acc.rc EXCEPT ![current_frame] = 1]
          ef == EncodedFrame(acc.state, current_frame, position, header.show)
          acc2 == [acc EXCEPT !.rc = EncodedFrameRefs(rc1, acc.state, current_frame),
                              !.frames = Append(acc.frames, ef)]
          acc3 == UpdateReferenceFrames(acc2, current_frame, header.refresh)
      IN [acc3 EXCEPT !.rc = Release(acc3.rc, current_frame)]

RECURSIVE ParseFrames(_, _, _)
ParseFrames(acc, contents, i) ==
  IF i > Len(contents) \/ acc.status # kStatusOk THEN acc
  ELSE ParseFrames(ParseOneFrame(acc, contents[i], i - 1), contents, i + 1)

\* ------------------------------------------------------- EnqueueFrame
\* temporal_units_.Full(), once the queue has been initialised.
QueueFull == seen_first_frame_ /\ capacity > 0 /\ Len(temporal_units_) = capacity

\* EnqueueFrame, first part: if (HasFailure()) return the stored failure.
EnqueueBegin ==
  /\ app_pc = "idle"
  /\ next_id < Len(scenario) \/ QueueFull
  /\ IF HasFailure
       THEN /\ ret' = [op |-> "enqueue", status |-> failure_status_, out |-> 0,
                       unit |-> 0, began_failed |-> TRUE, full |-> QueueFull]
            /\ app_pc' = "idle"
       ELSE /\ ret' = [op |-> "enqueue", status |-> kStatusOk, out |-> 0,
                       unit |-> 0, began_failed |-> FALSE, full |-> QueueFull]
            /\ app_pc' = "enqueue"
  /\ UNCHANGED <<pf_vars, fn_vars>>
  /\ UNCHANGED <<scenario, settings, seen_first_frame_, num_threads, capacity,
                 temporal_units_, failure_status_, output_frame_, state_,
                 refcount, next_id, out_log, decode_log, released>>

\* InitializeFrameThreadPoolAndTemporalUnitQueue fails on the first call.
EnqueueInitFails ==
  /\ app_pc = "enqueue"
  /\ ~seen_first_frame_
  /\ seen_first_frame_' = TRUE
  /\ failure_status_' = SignalFailureStatus(failure_status_, "kStatusOutOfMemory")
  /\ app_pc' = SignalFailurePc("kStatusOutOfMemory")
  /\ ret' = [ret EXCEPT !.status = "kStatusOutOfMemory"]
  /\ UNCHANGED <<pf_vars, fn_vars>>
  /\ UNCHANGED <<scenario, settings, num_threads, capacity, temporal_units_,
                 output_frame_, state_, refcount, next_id, out_log,
                 decode_log, released>>

\* ParseAndSchedule for the unit at the back of the queue.  malformed: the
\* bitstream is broken after the frames of contents.
ParseAndSchedule(unit, contents, malformed) ==
  LET acc0 == [status |-> kStatusOk, frames |-> << >>, state |-> state_,
               rc |-> refcount]
      acc == ParseFrames(acc0, contents, 1)
      status == IF acc.status # kStatusOk THEN acc.status
                ELSE IF malformed THEN "kStatusBitstreamError" ELSE kStatusOk
      parsed == [unit EXCEPT !.frames = acc.frames]
  IN [ status |-> status,
       state |-> acc.state,
       rc |-> acc.rc,
       unit |-> IF status # kStatusOk
                  THEN [parsed EXCEPT !.frames =
                          [j \in 1..Len(acc.frames) |->
                             [acc.frames[j] EXCEPT !.job = "none"]]]
                ELSE IF acc.frames = << >>
                  THEN [parsed EXCEPT !.has_displayable_frame = FALSE,
                                      !.decoded = TRUE]
                ELSE parsed ]

\* EnqueueFrame after the failure check: one-time initialisation of the frame
\* thread pool and of the queue, the TryAgain check, the push and
\* ParseAndSchedule.
EnqueueBody ==
  /\ app_pc = "enqueue"
  /\ \E pool_threads \in 1..MaxThreads :
       LET n == IF seen_first_frame_ THEN num_threads ELSE pool_threads
           cap == IF seen_first_frame_ THEN capacity
                  ELSE GetMaxAllowedFrames(n) + 1
       IN
       /\ seen_first_frame_' = TRUE
       /\ num_threads' = n
       /\ capacity' = cap
       /\ IF Len(temporal_units_) = cap
            THEN /\ ret' = [ret EXCEPT !.status = kStatusTryAgain]
                 /\ app_pc' = "idle"
                 /\ UNCHANGED <<temporal_units_, failure_status_, state_,
                                refcount, next_id>>
            ELSE \E contents \in UnitContents(scenario[next_id + 1]),
                    malformed \in BOOLEAN :
                 LET r == ParseAndSchedule(TemporalUnit(next_id + 1), contents,
                                           malformed)
                 IN /\ temporal_units_' = Append(temporal_units_, r.unit)
                    /\ state_' = r.state
                    /\ refcount' = r.rc
                    /\ next_id' = next_id + 1
                    /\ failure_status_' =
                         SignalFailureStatus(failure_status_, r.status)
                    /\ app_pc' = SignalFailurePc(r.status)
                    /\ ret' = [ret EXCEPT !.status = r.status,
                                          !.unit = next_id + 1]
  /\ UNCHANGED <<pf_vars, fn_vars>>
  /\ UNCHANGED <<scenario, settings, output_frame_, out_log, decode_log, released>>

\* ------------------------------------------------- frame thread pool
\* The frame jobs <<unit, frame>> that are in state job.
JobsIn(units, job) ==
  UNION {{<<i, j>> : j \in {f \in 1..Len(units[i].frames) :
                               units[i].frames[f].job = job}} :
         i \in 1..Len(units)}
JobBefore(a, b) == a[1] < b[1] \/ (a[1] = b[1] /\ a[2] < b[2])

\* What the worker's frame job drops when DecodeFrame has returned:
\* encoded_frame->state = {} and encoded_frame->frame = nullptr.
DropEncodedFrame(rc, ef) == Release(Release(rc, ef.state), ef.frame)

\* Every thread of the pool, whether it runs a job or not.
IdleWorkersAnyThread(units, pool_threads) == 1..pool_threads

\* The threads of frame_thread_pool_ that wait for a job: a thread runs one
\* job at a time.
IdleWorkers(units, pool_threads) ==
  (1..pool_threads) \
    {units[k[1]].frames[k[2]].worker : k \in JobsIn(units, "running")}

\* A notification of decoded_condvar_ that comes after every frame job rather
\* than when there is something to wait for.
NotifiesOnlyOnFailure(decoded, status) == status # kStatusOk

\* The frame job notifies decoded_condvar_ (under mutex_, with the update of
\* the flags) when its temporal unit has become decoded or it has failed.
Notifies(decoded, status) == decoded \/ status # kStatusOk

\* decoded_condvar_.notify_one(): the application thread, if it waits in
\* DequeueFrame, is woken; without a waiter the notification has no effect.
Notify(pc) == IF pc = "dequeue_wait" THEN "dequeue_woken" ELSE pc

\* A thread of frame_thread_pool_ takes the oldest pending job.  The job
\* starts with: if (HasFailure()) return.
JobStart ==
  /\ \E w \in IdleWorkers(temporal_units_, num_threads),
        k \in JobsIn(temporal_units_, "queued") :
       /\ \A o \in JobsIn(temporal_units_, "queued") : ~JobBefore(o, k)
       /\ temporal_units_' =
            [temporal_units_ EXCEPT ![k[1]].frames[k[2]] =
               IF HasFailure THEN [@ EXCEPT !.job = "aborted"]
               ELSE [@ EXCEPT !.job = "running", !.worker = w]]
  /\ UNCHANGED <<pf_vars, fn_vars>>
  /\ UNCHANGED <<scenario, settings, seen_first_frame_, num_threads, capacity,
                 failure_status_, output_frame_, state_, refcount, app_pc,
                 ret, next_id, out_log, decode_log, released>>

\* DecodeFrame polls the failure between units of work and gives up.
JobAbort ==
  /\ HasFailure
  /\ \E k \in JobsIn(temporal_units_, "running") :
       LET ef == temporal_units_[k[1]].frames[k[2]] IN
       /\ temporal_units_' =
            [temporal_units_ EXCEPT ![k[1]].frames[k[2]] =
               [ef EXCEPT !.job = "aborted", !.worker = 0, !.state = 0,
                          !.frame = 0]]
       /\ refcount' = DropEncodedFrame(refcount, ef)
  /\ UNCHANGED <<pf_vars, fn_vars>>
  /\ UNCHANGED <<scenario, settings, seen_first_frame_, num_threads, capacity,
                 failure_status_, output_frame_, state_, app_pc, ret, next_id,
                 out_log, decode_log, released>>

\* DecodeFrame for a shown frame: the frame becomes an output layer of its
\* temporal unit (all layers, or only the one latest in the temporal unit).
RecordOutputLayer(unit, ef, rc) ==
  LET layer == [frame |-> ef.frame,
                position_in_temporal_unit |-> ef.position_in_temporal_unit]
  IN
  IF ~ef.show THEN [unit |-> unit, rc |-> rc]
  ELSE IF settings.output_all_layers
    THEN [unit |-> [unit EXCEPT !.has_displayable_frame = TRUE,
                                !.output_layers = Append(@, layer),
                                !.output_layer_count = @ + 1],
          rc |-> AddRef(rc, ef.frame)]
  ELSE IF ef.position_in_temporal_unit > unit.output_frame_position
    THEN [unit |-> [unit EXCEPT !.has_displayable_frame = TRUE,
                                !.output_frame_position =
                                   ef.position_in_temporal_unit,
                                !.output_layers = <<layer>>,
                                !.output_layer_count = 1],
          rc |-> AddRef(IF unit.output_layer_count = 1
                          THEN Release(rc, unit.output_layers[1].frame)
                          ELSE rc, ef.frame)]
  ELSE [unit |-> [unit EXCEPT !.has_displayable_frame = TRUE], rc |-> rc]

\* The bookkeeping of a frame job under mutex_ once DecodeFrame has returned
\* status: the unit's status and the failure on error, decoded_count, decoded,
\* the sort of the output layers.
FrameDecoded(unit, j, status) ==
  LET u1 == [unit EXCEPT !.frames[j].job = "done",
                         !.frames[j].worker = 0,
                         !.frames[j].state = 0,
                         !.frames[j].frame = 0,
                         !.status = IF status # kStatusOk THEN status ELSE @,
                         !.decoded_count = @ + 1]
      u2 == [u1 EXCEPT !.decoded = (u1.decoded_count = Len(u1.frames))]
  IN IF u2.decoded /\ settings.output_all_layers /\ u2.output_layer_count > 1
       THEN [u2 EXCEPT !.output_layers = SortLayers(@)]
       ELSE u2

\* A frame job gets to its end: DecodeFrame returns status.
JobFinish ==
  \E k \in JobsIn(temporal_units_, "running"),
     status \in {kStatusOk, "kStatusUnknownError"} :
    LET unit == temporal_units_[k[1]]
        ef == unit.frames[k[2]]
        rec == IF status = kStatusOk
                 THEN RecordOutputLayer(unit, ef, refcount)
                 ELSE [unit |-> unit, rc |-> refcount]
    IN
    /\ refcount' = DropEncodedFrame(IF HasFailure THEN refcount ELSE rec.rc, ef)
    /\ IF HasFailure
         THEN /\ temporal_units_' =
                   [temporal_units_ EXCEPT ![k[1]].frames[k[2]] =
                      [ef EXCEPT !.job = "aborted", !.worker = 0, !.state = 0,
                          !.frame = 0]]
              /\ UNCHANGED <<failure_status_, decode_log, app_pc>>
         ELSE /\ temporal_units_' =
                   [temporal_units_ EXCEPT ![k[1]] =
                      FrameDecoded(rec.unit, k[2], status)]
              /\ app_pc' =
                   IF Notifies(FrameDecoded(rec.unit, k[2], status).decoded,
                               status)
                     THEN Notify(app_pc) ELSE app_pc
              /\ failure_status_' =
                   IF status # kStatusOk THEN status ELSE failure_status_
              /\ decode_log' = Append(decode_log,
                   [unit |-> unit.id,
                    position |-> ef.position_in_temporal_unit])
    /\ UNCHANGED <<pf_vars, fn_vars>>
    /\ UNCHANGED <<scenario, settings, seen_first_frame_, num_threads, capacity,
                   output_frame_, state_, ret, next_id, out_log, released>>

\* SignalFailure returns once the workers of the frame thread pool are gone.
SignalFailureDone ==
  /\ app_pc = "signal"
  /\ JobsIn(temporal_units_, "running") = {}
  /\ JobsIn(temporal_units_, "queued") = {}
  /\ app_pc' = "idle"
  /\ UNCHANGED <<pf_vars, fn_vars>>
  /\ UNCHANGED <<scenario, settings, seen_first_frame_, num_threads, capacity,
                 temporal_units_, failure_status_, output_frame_, state_,
                 refcount, ret, next_id, out_log, decode_log, released>>

\* ------------------------------------------------------- DequeueFrame
\* TemporalUnit::released_input_buffer: DequeueFrame comes by once for every
\* output layer of the unit and releases the input buffer only while the flag
\* is not set.
ReleasesInputBuffer(unit) == ~unit.released_input_buffer

\* The index (from 1) of the layer DequeueFrame returns: output_layers[] is
\* walked backwards with the one counter output_layer_count.
OutputLayerIndex(unit) == unit.output_layer_count

\* DequeueFrame past the wait: the head unit is decoded and there is no
\* failure.  rc is the reference counts after ReleaseOutputFrame.
DequeueHead(rc, began_failed) ==
  LET unit == Head(temporal_units_)
      release == ReleasesInputBuffer(unit)
      u1 == [unit EXCEPT !.released_input_buffer = TRUE]
      n == OutputLayerIndex(unit)
      call == [op |-> "dequeue", status |-> kStatusOk, out |-> 0,
               unit |-> unit.id, began_failed |-> began_failed,
               full |-> QueueFull]
  IN
  /\ released' = IF release THEN [released EXCEPT ![unit.id] = @ + 1]
                 ELSE released
  /\ IF unit.status # kStatusOk
       THEN /\ temporal_units_' = Tail(temporal_units_)
            /\ failure_status_' = SignalFailureStatus(failure_status_, unit.status)
            /\ app_pc' = SignalFailurePc(unit.status)
            /\ ret' = [call EXCEPT !.status = unit.status]
            /\ output_frame_' = 0
            /\ refcount' = rc
            /\ UNCHANGED out_log
     ELSE IF ~unit.has_displayable_frame
       THEN /\ temporal_units_' = Tail(temporal_units_)
            /\ app_pc' = "idle"
            /\ ret' = call
            /\ output_frame_' = 0
            /\ refcount' = rc
            /\ out_log' = Append(out_log, [unit |-> unit.id, position |-> -1])
            /\ UNCHANGED failure_status_
     ELSE LET \* assert(output_layer_count > 0); without a layer the read is
              \* outside the array and yields no frame.
              layer == IF n >= 1 THEN unit.output_layers[n]
                       ELSE [frame |-> 0, position_in_temporal_unit |-> -1]
              u2 == IF n >= 1
                      THEN [u1 EXCEPT !.output_layers[n].frame = 0,
                                      !.output_layer_count = n - 1]
                      ELSE [u1 EXCEPT !.output_layer_count = n - 1]
          IN /\ output_frame_' = layer.frame
             /\ refcount' = Release(AddRef(rc, layer.frame), layer.frame)
             /\ temporal_units_' = IF n - 1 = 0 THEN Tail(temporal_units_)
                                   ELSE <<u2>> \o Tail(temporal_units_)
             /\ app_pc' = "idle"
             /\ ret' = [call EXCEPT !.out = layer.frame]
             /\ out_log' = Append(out_log,
                  [unit |-> unit.id,
                   position |-> layer.position_in_temporal_unit])
             /\ UNCHANGED failure_status_

\* DequeueFrame is called: ReleaseOutputFrame, the failure check, the empty
\* queue, then the head unit if it is decoded; otherwise NothingToDequeue, or
\* the wait on decoded_condvar_ when settings_.blocking_dequeue is set.
DequeueFrame ==
  /\ app_pc = "idle"
  /\ LET rc == Release(refcount, output_frame_)
         call == [op |-> "dequeue", status |-> kStatusOk, out |-> 0,
                  unit |-> 0, began_failed |-> HasFailure, full |-> QueueFull]
     IN
     IF HasFailure
       THEN /\ app_pc' = SignalFailurePc(failure_status_)
            /\ ret' = [call EXCEPT !.status = failure_status_]
            /\ output_frame_' = 0
            /\ refcount' = rc
            /\ UNCHANGED <<temporal_units_, failure_status_, out_log, released>>
     ELSE IF temporal_units_ = << >>
       THEN /\ app_pc' = "idle"
            /\ ret' = [call EXCEPT !.status = kStatusNothingToDequeue]
            /\ output_frame_' = 0
            /\ refcount' = rc
            /\ UNCHANGED <<temporal_units_, failure_status_, out_log, released>>
     ELSE IF ~Head(temporal_units_).decoded
       THEN /\ IF settings.blocking_dequeue
                 THEN /\ app_pc' = "dequeue_wait"
                      /\ ret' = call
                 ELSE /\ app_pc' = "idle"
                      /\ ret' = [call EXCEPT !.status = kStatusNothingToDequeue]
            /\ output_frame_' = 0
            /\ refcount' = rc
            /\ UNCHANGED <<temporal_units_, failure_status_, out_log, released>>
     ELSE DequeueHead(rc, FALSE)
  /\ UNCHANGED <<pf_vars, fn_vars>>
  /\ UNCHANGED <<scenario, settings, seen_first_frame_, num_threads, capacity,
                 state_, next_id, decode_log>>

\* The blocked DequeueFrame has been notified: it takes mutex_ again and
\* looks at the failure and at the head unit; if there is neither a failure
\* nor a decoded head unit it waits again.
DequeueWake ==
  /\ app_pc = "dequeue_woken"
  /\ IF HasFailure
       THEN /\ app_pc' = SignalFailurePc(failure_status_)
            /\ ret' = [ret EXCEPT !.status = failure_status_]
            /\ UNCHANGED <<temporal_units_, failure_status_, output_frame_,
                           refcount, out_log, released>>
     ELSE IF Head(temporal_units_).decoded
       THEN DequeueHead(refcount, FALSE)
     ELSE /\ app_pc' = "dequeue_wait"
          /\ UNCHANGED <<temporal_units_, failure_status_, output_frame_,
                         refcount, out_log, released, ret>>
  /\ UNCHANGED <<pf_vars, fn_vars>>
  /\ UNCHANGED <<scenario, settings, seen_first_frame_, num_threads, capacity,
                 state_, next_id, decode_log>>

\* ------------------------------------------------------ specification
Next ==
  \/ EnqueueBegin
  \/ EnqueueInitFails
  \/ EnqueueBody
  \/ JobStart
  \/ JobAbort
  \/ JobFinish
  \/ SignalFailureDone
  \/ DequeueFrame
  \/ DequeueWake

Spec == Init /\ [][Next]_vars

SpecLayers == InitLayers /\ [][Next]_vars

\* The threads of frame_thread_pool_ keep running: a pending job is started
\* when a thread is idle, a running job gets to its next poll point or to its
\* end, SignalFailure and a notified DequeueFrame go on.  Nothing is assumed
\* of the application's calls.
Fairness ==
  /\ WF_vars(JobStart)
  /\ WF_vars(JobAbort)
  /\ WF_vars(JobFinish)
  /\ WF_vars(SignalFailureDone)
  /\ WF_vars(DequeueWake)

\* Single-frame temporal units, of which only one layer can be output.
InitFair == Init /\ ~settings.output_all_layers

SpecFair == InitFair /\ [][Next]_vars /\ Fairness

TypeOK ==
  /\ app_pc \in {"idle", "enqueue", "dequeue_wait", "dequeue_woken", "signal"}
  /\ failure_status_ \in FatalStatus \cup {kStatusOk}
  /\ \A b \in Buffers : refcount[b] >= 0

\* ============================================================ PostFilter
\* post_filter.cc.  pf_cfg holds what the constructor is given: mode (the
\* threaded whole-frame path or the calls for one superblock row at a time),
\* do_post_filter_mask, planes, lr_type (loop_restoration_.type[] of Y, U, V),
\* rows4x4, height (always 4 * rows4x4), subsampling_y of U and V,
\* num_workers (thread_pool_->num_threads()), window_height
\* (window_buffer_height_), sb4x4, in_loop (DoBorderExtensionInLoop()) and
\* refresh (frame_header_.refresh_frame_flags != 0).
kLoopRestorationTypeNone == "kLoopRestorationTypeNone"
kLoopRestorationTypeWiener == "kLoopRestorationTypeWiener"

Min(a, b) == IF a < b THEN a ELSE b
RightShiftWithRounding(value, bits) ==
  IF bits = 0 THEN value ELSE (value + 2 ^ (bits - 1)) \div 2 ^ bits

\* Bit `bit` of do_post_filter_mask.
MaskBit(do_post_filter_mask, bit) == (do_post_filter_mask \div 2 ^ bit) % 2 = 1

\* PostFilter::DoDeblock, DoCdef, DoSuperRes: bits 0, 1 and 2 of the mask (the
\* bits --post_filter_mask documents); the frame header is taken to enable
\* each of the three filters.
DoDeblock(cfg) == MaskBit(cfg.do_post_filter_mask, 0)
DoCdef(cfg) == MaskBit(cfg.do_post_filter_mask, 1)
DoSuperRes(cfg) == MaskBit(cfg.do_post_filter_mask, 2)

\* DoRestoration that looks at the restoration types only.
DoRestorationIgnoringMask(type, do_post_filter_mask, num_planes) ==
  IF num_planes = 1 THEN type[1] # kLoopRestorationTypeNone
  ELSE \E plane \in 1..3 : type[plane] # kLoopRestorationTypeNone

\* static PostFilter::DoRestoration(loop_restoration, do_post_filter_mask,
\* num_planes); type[1], type[2], type[3] are the types of Y, U and V.
DoRestoration(type, do_post_filter_mask, num_planes) ==
  IF ~MaskBit(do_post_filter_mask, 3) THEN FALSE
  ELSE IF num_planes = 1 THEN type[1] # kLoopRestorationTypeNone
  ELSE \E plane \in 1..3 : type[plane] # kLoopRestorationTypeNone

\* PostFilter::DoRestoration() const
DoRestorationOf(cfg) ==
  DoRestoration(cfg.lr_type, cfg.do_post_filter_mask, cfg.planes)

\* The buffers the constructor sets up for a plane, each as the pair (number
\* of kRestorationBorder shifts, number of kCdefBorder shifts) by which it is
\* offset from frame_buffer_.data(plane).  Deblocking works in place on
\* source_buffer_, CDEF reads source_buffer_ and writes cdef_buffer_, SuperRes
\* works in place on cdef_buffer_, loop restoration reads cdef_buffer_ and
\* writes loop_restoration_buffer_.
PlaneBuffers(cfg, plane) ==
  LET restoration_shift ==
        IF (DoCdef(cfg) \/ DoRestorationOf(cfg))
             /\ DoRestorationOf(cfg)
             /\ cfg.lr_type[plane] # kLoopRestorationTypeNone
          THEN 1 ELSE 0
      cdef_shift ==
        IF (DoCdef(cfg) \/ DoRestorationOf(cfg)) /\ DoCdef(cfg) THEN 1 ELSE 0
  IN [loop_restoration_buffer_ |-> <<0, 0>>,
      cdef_buffer_ |-> <<restoration_shift, 0>>,
      source_buffer_ |-> <<restoration_shift, cdef_shift>>]

\* One invocation of a stage: the function, the first row (in 4x4 units) and
\* the number of rows it is called for (0, 0: the whole frame).
Invocation(function, row4x4, sb4x4) ==
  [function |-> function, row4x4 |-> row4x4, sb4x4 |-> sb4x4]

\* The stage a function belongs to, as a bit of do_post_filter_mask
\* (4: the border extension for reference frames, which has no bit).
StageOf(function) ==
  CASE function = "ApplyDeblockFilter" -> 0
    [] function = "SetupDeblockBuffer" -> 1
    [] function = "ApplyCdef" -> 1
    [] function = "ApplySuperRes" -> 2
    [] function = "CopyBorderForRestoration" -> 3
    [] function = "ApplyLoopRestoration" -> 3
    [] function = "ExtendBordersForReferenceFrame" -> 4

\* --------------------------------- ApplyFilteringForOneSuperBlockRow
\* A progress_row_ that leaves out the lag of loop restoration.
ExtendBordersProgressNoLag(cfg, progress_row_, row4x4, sb4x4) ==
  IF ~cfg.refresh \/ ~cfg.in_loop THEN progress_row_
  ELSE
    LET plane_height == cfg.height
        row == 4 * row4x4
        num_rows == Min(4 * sb4x4, plane_height - row)
    IN IF row >= plane_height THEN progress_row_ ELSE row + num_rows

\* ExtendBordersForReferenceFrame(row4x4, sb4x4): the new value of
\* progress_row_ (the Y plane's row + num_rows).
ExtendBordersProgress(cfg, progress_row_, row4x4, sb4x4) ==
  IF ~cfg.refresh \/ ~cfg.in_loop THEN progress_row_
  ELSE
    LET loop_restoration_row_offset ==
          IF DoRestorationOf(cfg) THEN (IF row4x4 = 0 THEN 0 ELSE 8) ELSE 0
        loop_restoration_height_offset ==
          IF DoRestorationOf(cfg) /\ row4x4 = 0 THEN 8 ELSE 0
        plane_height == cfg.height
        row == 4 * row4x4 - loop_restoration_row_offset
        num_rows == Min(4 * sb4x4 - loop_restoration_height_offset,
                        plane_height - row)
    IN IF row >= plane_height THEN progress_row_ ELSE row + num_rows

\* The filters after deblocking for the superblock row at row4x4, as both the
\* previous_row4x4 block and the is_last_row block call them.
FiltersAfterDeblock(cfg, row4x4, sb4x4) ==
  (IF DoRestorationOf(cfg) /\ DoCdef(cfg)
     THEN <<Invocation("SetupDeblockBuffer", row4x4, sb4x4)>> ELSE << >>)
  \o (IF DoCdef(cfg)
        THEN <<Invocation("ApplyCdef", row4x4, sb4x4)>> ELSE << >>)
  \o (IF DoSuperRes(cfg)
        THEN <<Invocation("ApplySuperRes", row4x4, sb4x4)>> ELSE << >>)
  \o (IF DoRestorationOf(cfg)
        THEN <<Invocation("CopyBorderForRestoration", row4x4, sb4x4),
               Invocation("ApplyLoopRestoration", row4x4, sb4x4)>>
        ELSE << >>)

\* A previous_row4x4 without the lag of one superblock row.
PreviousRow4x4NoLag(row4x4, sb4x4) == row4x4
\* previous_row4x4 of ApplyFilteringForOneSuperBlockRow.
PreviousRow4x4(row4x4, sb4x4) == row4x4 - sb4x4

\* The calls ApplyFilteringForOneSuperBlockRow(row4x4, sb4x4, is_last_row)
\* makes, in order.
SuperBlockRowCalls(cfg, row4x4, sb4x4, is_last_row) ==
  IF row4x4 < 0 THEN << >>
  ELSE
    LET previous_row4x4 == PreviousRow4x4(row4x4, sb4x4) IN
    (IF DoDeblock(cfg)
       THEN <<Invocation("ApplyDeblockFilter", row4x4, sb4x4)>> ELSE << >>)
    \o (IF previous_row4x4 >= 0
          THEN FiltersAfterDeblock(cfg, previous_row4x4, sb4x4)
               \o <<Invocation("ExtendBordersForReferenceFrame",
                               previous_row4x4, sb4x4)>>
          ELSE << >>)
    \o (IF is_last_row
          THEN FiltersAfterDeblock(cfg, row4x4, sb4x4)
               \o (IF DoRestorationOf(cfg)
                     THEN <<Invocation("ApplyLoopRestoration",
                                       row4x4 + sb4x4, 16)>>
                     ELSE << >>)
               \o <<Invocation("ExtendBordersForReferenceFrame", row4x4,
                               sb4x4)>>
               \o (IF DoRestorationOf(cfg)
                     THEN <<Invocation("ExtendBordersForReferenceFrame",
                                       row4x4 + sb4x4, 16)>>
                     ELSE << >>)
               \o (IF ~cfg.in_loop
                     THEN <<Invocation("ExtendBordersForReferenceFrame", 0,
                                       0)>>
                     ELSE << >>)
          ELSE << >>)

\* progress_row_ after the calls of one ApplyFilteringForOneSuperBlockRow.
RECURSIVE ProgressAfter(_, _, _, _)
ProgressAfter(cfg, progress_row_, calls, i) ==
  IF i > Len(calls) THEN progress_row_
  ELSE ProgressAfter(
         cfg,
         IF calls[i].function = "ExtendBordersForReferenceFrame"
              /\ calls[i].sb4x4 # 0
           THEN ExtendBordersProgress(cfg, progress_row_, calls[i].row4x4,
                                      calls[i].sb4x4)
           ELSE progress_row_,
         calls, i + 1)

\* -------------------------------------------- ApplyFilteringThreaded
kNum4x4InLoopFilterMaskUnit == 16
kRestorationProcessingUnitSize == 64
kRestorationUnitOffset == 8

\* One barrier-delimited section of the threaded path: the stage function, the
\* first row it covers, the number of thread_pool_->Schedule() calls, the
\* initial value of its BlockingCounter and the number of jobs the current
\* thread runs itself before it calls Wait().
Section(function, row, pool, pending, current) ==
  [function |-> function, row |-> row, pool |-> pool, pending |-> pending,
   current |-> current]

\* ApplyDeblockFilterThreaded: one section per loop filter type (vertical,
\* then horizontal); num_workers scheduled DeblockFilterWorker calls and one
\* on the current thread.
ApplyDeblockFilterThreaded(cfg) ==
  [type \in 1..2 |->
     Section("ApplyDeblockFilter", 0, cfg.num_workers, cfg.num_workers, 1)]

\* The SetupDeblockBuffer loop of ApplyFilteringThreaded: all on the current
\* thread, one call per kNum4x4InLoopFilterMaskUnit rows.
SetupDeblockBufferLoop(cfg) ==
  <<Section("SetupDeblockBuffer", 0, 0, 0,
            (cfg.rows4x4 + kNum4x4InLoopFilterMaskUnit - 1)
              \div kNum4x4InLoopFilterMaskUnit)>>

\* vertical_units_per_window * num_workers / (num_workers + 1)
JobsForThreadpoolRoundedUp(vertical_units_per_window, num_workers) ==
  (vertical_units_per_window * (num_workers + 1)) \div num_workers
JobsForThreadpool(vertical_units_per_window, num_workers) ==
  (vertical_units_per_window * num_workers) \div (num_workers + 1)

\* ApplyCdefThreaded from the window that starts at row4x4 on (the frame is
\* one window wide): a section per window.
RECURSIVE ApplyCdefThreaded(_, _)
ApplyCdefThreaded(cfg, row4x4) ==
  IF row4x4 >= cfg.rows4x4 THEN << >>
  ELSE
    LET window_buffer_height4x4 == cfg.window_height \div 4
        actual_window_height4x4 ==
          Min(window_buffer_height4x4, cfg.rows4x4 - row4x4)
        vertical_units_per_window == (actual_window_height4x4 + 15) \div 16
        jobs_for_threadpool ==
          JobsForThreadpool(vertical_units_per_window, cfg.num_workers)
        job_count == (actual_window_height4x4 + 15) \div 16
    IN <<Section("ApplyCdef", row4x4, Min(job_count, jobs_for_threadpool),
                 jobs_for_threadpool,
                 job_count - Min(job_count, jobs_for_threadpool))>>
       \o ApplyCdefThreaded(cfg, row4x4 + window_buffer_height4x4)

\* ApplySuperResThreaded: num_threads - 1 scheduled jobs, the last share on
\* the current thread.
ApplySuperResThreaded(cfg) ==
  LET threads == cfg.num_workers + 1 IN
  <<Section("ApplySuperRes", 0, threads - 1, threads - 1, 1)>>

\* subsampling_y_[plane]; planes are 1 (Y), 2 (U), 3 (V).
SubsamplingY(cfg, plane) == IF plane = 1 THEN 0 ELSE cfg.subsampling_y

\* The row loop of one window of ApplyLoopRestorationThreaded: the number of
\* iterations (job_count after the loop) from `row` on.
RECURSIVE WindowRowJobs(_, _, _, _, _, _)
WindowRowJobs(y, row, actual_window_height, plane_height, unit_height, unit_height_offset) ==
  IF row >= actual_window_height THEN 0
  ELSE
    LET unit_y == y + row
        expected_height ==
          unit_height + (IF unit_y = 0 THEN -unit_height_offset ELSE 0)
        current_process_unit_height ==
          IF unit_y + expected_height <= plane_height THEN expected_height
          ELSE plane_height - unit_y
    IN 1 + WindowRowJobs(y, row + current_process_unit_height,
                         actual_window_height, plane_height, unit_height,
                         unit_height_offset)

\* vertical_units_per_window of the window at y.
VerticalUnitsPerWindow(y, actual_window_height, unit_height, unit_height_offset) ==
  IF y = 0
    THEN LET height_without_first_unit ==
               actual_window_height
                 - Min(actual_window_height, unit_height - unit_height_offset)
         IN (height_without_first_unit + unit_height - 1) \div unit_height + 1
    ELSE (actual_window_height + unit_height - 1) \div unit_height

\* The windows of one plane of ApplyLoopRestorationThreaded from y on.
RECURSIVE RestorationWindows(_, _, _)
RestorationWindows(cfg, plane, y) ==
  LET unit_height ==
        kRestorationProcessingUnitSize \div 2 ^ SubsamplingY(cfg, plane)
      unit_height_offset ==
        kRestorationUnitOffset \div 2 ^ SubsamplingY(cfg, plane)
      plane_height ==
        RightShiftWithRounding(cfg.height, SubsamplingY(cfg, plane))
  IN IF y >= plane_height THEN << >>
     ELSE
       LET actual_window_height ==
             Min(cfg.window_height - (IF y = 0 THEN unit_height_offset ELSE 0),
                 plane_height - y)
           vertical_units_per_window ==
             VerticalUnitsPerWindow(y, actual_window_height, unit_height,
                                    unit_height_offset)
           jobs_for_threadpool ==
             JobsForThreadpool(vertical_units_per_window, cfg.num_workers)
           job_count ==
             WindowRowJobs(y, 0, actual_window_height, plane_height,
                           unit_height, unit_height_offset)
       IN <<Section("ApplyLoopRestoration", y,
                    Min(job_count, jobs_for_threadpool), jobs_for_threadpool,
                    job_count - Min(job_count, jobs_for_threadpool))>>
          \o RestorationWindows(
               cfg, plane,
               (IF y = 0 THEN y - unit_height_offset ELSE y)
                 + cfg.window_height)

\* ApplyLoopRestorationThreaded: the planes whose type is not None, in order.
RECURSIVE ApplyLoopRestorationThreaded(_, _)
ApplyLoopRestorationThreaded(cfg, plane) ==
  IF plane > cfg.planes THEN << >>
  ELSE (IF cfg.lr_type[plane] = kLoopRestorationTypeNone THEN << >>
        ELSE RestorationWindows(cfg, plane, 0))
       \o ApplyLoopRestorationThreaded(cfg, plane + 1)

\* ExtendBordersForReferenceFrame(): on the current thread, nothing to do
\* when refresh_frame_flags is 0.
ExtendBordersSection(cfg) ==
  <<Section("ExtendBordersForReferenceFrame", 0, 0, 0,
            IF cfg.refresh THEN 1 ELSE 0)>>

\* ApplyFilteringThreaded with the SuperRes call ahead of the CDEF call.
ApplyFilteringThreadedSuperResFirst(cfg) ==
  (IF DoDeblock(cfg) THEN ApplyDeblockFilterThreaded(cfg) ELSE << >>)
  \o (IF DoSuperRes(cfg) THEN ApplySuperResThreaded(cfg) ELSE << >>)
  \o (IF DoCdef(cfg) /\ DoRestorationOf(cfg)
        THEN SetupDeblockBufferLoop(cfg) ELSE << >>)
  \o (IF DoCdef(cfg) THEN ApplyCdefThreaded(cfg, 0) ELSE << >>)
  \o (IF DoRestorationOf(cfg)
        THEN ApplyLoopRestorationThreaded(cfg, 1) ELSE << >>)
  \o ExtendBordersSection(cfg)

\* ApplyFilteringThreaded: the sections the current thread goes through.
ApplyFilteringThreaded(cfg) ==
  (IF DoDeblock(cfg) THEN ApplyDeblockFilterThreaded(cfg) ELSE << >>)
  \o (IF DoCdef(cfg) /\ DoRestorationOf(cfg)
        THEN SetupDeblockBufferLoop(cfg) ELSE << >>)
  \o (IF DoCdef(cfg) THEN ApplyCdefThreaded(cfg, 0) ELSE << >>)
  \o (IF DoSuperRes(cfg) THEN ApplySuperResThreaded(cfg) ELSE << >>)
  \o (IF DoRestorationOf(cfg)
        THEN ApplyLoopRestorationThreaded(cfg, 1) ELSE << >>)
  \o ExtendBordersSection(cfg)

\* ------------------------------------------------ post-filter actions
MaxRows8 == 4
MaxWorkers == 2

\* frame_header_.rows4x4: frames of 32 to 32 * MaxRows8 pixel rows (the
\* superblock-row path also takes frames twice as tall).
FrameRows4x4 == {8 * k : k \in 1..MaxRows8}
\* window_buffer_height_: a multiple of 64.
WindowHeights == {kRestorationProcessingUnitSize,
                  2 * kRestorationProcessingUnitSize}
\* planes_ and loop_restoration_.type[]: monochrome and three-plane frames,
\* with restoration for no plane, for Y only, or for chroma only.
RestorationChoices ==
  LET None == kLoopRestorationTypeNone
      Wiener == kLoopRestorationTypeWiener
  IN {[planes |-> 1, type |-> <<None, None, None>>],
      [planes |-> 1, type |-> <<Wiener, None, None>>],
      [planes |-> 1, type |-> <<None, Wiener, Wiener>>],
      [planes |-> 3, type |-> <<None, None, None>>],
      [planes |-> 3, type |-> <<Wiener, None, None>>],
      [planes |-> 3, type |-> <<None, None, Wiener>>]}

PostFilterConfig(mode, mask, lr, rows4x4, num_workers, window_height, sb4x4, in_loop, refresh) ==
  [mode |-> mode, do_post_filter_mask |-> mask, planes |-> lr.planes,
   lr_type |-> lr.type, rows4x4 |-> rows4x4, height |-> 4 * rows4x4,
   subsampling_y |-> 1, num_workers |-> num_workers,
   window_height |-> window_height, sb4x4 |-> sb4x4, in_loop |-> in_loop,
   refresh |-> refresh]

\* The current thread's position: in the threaded path the section it is in
\* and the jobs it still has to run itself; in the superblock-row path the
\* row4x4 of the next call, progress_row_ and the last return value.
Position(at, section, current, row4x4, progress_row_, value) ==
  [at |-> at, section |-> section, current |-> current, row4x4 |-> row4x4,
   progress_row_ |-> progress_row_, value |-> value]

Logged(invocation, call) ==
  [function |-> invocation.function, row4x4 |-> invocation.row4x4,
   sb4x4 |-> invocation.sb4x4, call |-> call]

InitPostFilter ==
  /\ DecoderOff
  /\ FunctionOff
  /\ \E mask \in 0..15, lr \in RestorationChoices, rows4x4 \in FrameRows4x4,
        refresh \in BOOLEAN :
       \/ \E num_workers \in 1..MaxWorkers, window_height \in WindowHeights :
            /\ pf_cfg = PostFilterConfig("threaded", mask, lr, rows4x4,
                                         num_workers, window_height, 16,
                                         FALSE, refresh)
            /\ pf_pc = Position("schedule", 1, 0, 0, -1, -1)
       \/ \E sb4x4 \in {16, 32}, in_loop \in BOOLEAN, tall \in BOOLEAN :
            /\ pf_cfg = PostFilterConfig("superblock_row", mask, lr,
                                         IF tall THEN 2 * rows4x4
                                         ELSE rows4x4,
                                         0, kRestorationProcessingUnitSize,
                                         sb4x4, in_loop, refresh)
            /\ pf_pc = Position("row", 0, 0, -sb4x4, -1, -1)
  /\ pf_jobs = << >>
  /\ pf_pending = 0
  /\ pf_log = << >>

\* One call of ApplyFilteringForOneSuperBlockRow by the decoding thread, for
\* the next superblock row (the first call is for the row before row 0).
PfSuperBlockRow ==
  /\ pf_cfg.mode = "superblock_row"
  /\ pf_pc.at = "row"
  /\ LET row4x4 == pf_pc.row4x4
         sb4x4 == pf_cfg.sb4x4
         is_last_row == row4x4 >= 0 /\ row4x4 + sb4x4 >= pf_cfg.rows4x4
         calls == SuperBlockRowCalls(pf_cfg, row4x4, sb4x4, is_last_row)
         progress == ProgressAfter(pf_cfg, pf_pc.progress_row_, calls, 1)
         value == IF row4x4 < 0 THEN -1
                  ELSE IF is_last_row THEN pf_cfg.height ELSE progress
     IN /\ pf_log' = pf_log \o [i \in 1..Len(calls) |->
                                  Logged(calls[i], row4x4)]
        /\ pf_pc' = Position(IF is_last_row THEN "done" ELSE "row", 0, 0,
                             row4x4 + sb4x4, progress, value)
  /\ UNCHANGED <<pf_cfg, pf_jobs, pf_pending>>
  /\ UNCHANGED <<decoder_vars, fn_vars>>

\* A Wait() that returns at once.
BlockingCounterNoWait(count) == TRUE
\* BlockingCounter::Wait() returns when the count is zero.
BlockingCounterWait(count) == count = 0

\* The current thread enters its next section: it constructs the
\* BlockingCounter and schedules the section's thread-pool jobs.
PfSchedule ==
  /\ pf_cfg.mode = "threaded"
  /\ pf_pc.at = "schedule"
  /\ LET section == ApplyFilteringThreaded(pf_cfg)[pf_pc.section] IN
     /\ pf_jobs' = pf_jobs \o [i \in 1..section.pool |->
                                 [section |-> pf_pc.section,
                                  function |-> section.function,
                                  status |-> "queued"]]
     /\ pf_pending' = section.pending
     /\ pf_log' = Append(pf_log,
                         Logged(Invocation(section.function, section.row, 0),
                                pf_pc.section))
     /\ pf_pc' = Position("run", pf_pc.section, section.current, 0, -1, -1)
  /\ UNCHANGED pf_cfg
  /\ UNCHANGED <<decoder_vars, fn_vars>>

\* The current thread runs one of the jobs it keeps for itself.
PfCurrentJob ==
  /\ pf_pc.at = "run"
  /\ pf_pc.current > 0
  /\ pf_pc' = [pf_pc EXCEPT !.current = @ - 1]
  /\ UNCHANGED <<pf_cfg, pf_jobs, pf_pending, pf_log>>
  /\ UNCHANGED <<decoder_vars, fn_vars>>

\* pending.Wait() returns and the current thread leaves the section.
PfWait ==
  /\ pf_pc.at = "run"
  /\ pf_pc.current = 0
  /\ BlockingCounterWait(pf_pending)
  /\ pf_pc' = IF pf_pc.section < Len(ApplyFilteringThreaded(pf_cfg))
                THEN Position("schedule", pf_pc.section + 1, 0, 0, -1, -1)
                ELSE Position("done", pf_pc.section, 0, 0, -1, pf_cfg.height)
  /\ UNCHANGED <<pf_cfg, pf_jobs, pf_pending, pf_log>>
  /\ UNCHANGED <<decoder_vars, fn_vars>>

\* A thread of the pool takes the oldest queued job.
PfWorkerStart ==
  /\ \E j \in 1..Len(pf_jobs) :
       /\ pf_jobs[j].status = "queued"
       /\ \A i \in 1..(j - 1) : pf_jobs[i].status # "queued"
       /\ Cardinality({i \in 1..Len(pf_jobs) : pf_jobs[i].status = "running"})
            < pf_cfg.num_workers
       /\ pf_jobs' = [pf_jobs EXCEPT ![j].status = "running"]
  /\ UNCHANGED <<pf_cfg, pf_pc, pf_pending, pf_log>>
  /\ UNCHANGED <<decoder_vars, fn_vars>>

\* A thread of the pool finishes its job and calls Decrement() on the
\* section's counter.
PfWorkerFinish ==
  /\ \E j \in 1..Len(pf_jobs) :
       /\ pf_jobs[j].status = "running"
       /\ pf_jobs' = [pf_jobs EXCEPT ![j].status = "done"]
       /\ pf_pending' = IF pf_jobs[j].section = pf_pc.section /\ pf_pending > 0
                          THEN pf_pending - 1 ELSE pf_pending
  /\ UNCHANGED <<pf_cfg, pf_pc, pf_log>>
  /\ UNCHANGED <<decoder_vars, fn_vars>>

NextPostFilter ==
  \/ PfSuperBlockRow
  \/ PfSchedule
  \/ PfCurrentJob
  \/ PfWait
  \/ PfWorkerStart
  \/ PfWorkerFinish

SpecPostFilter == InitPostFilter /\ [][NextPostFilter]_vars

\* The threaded path with the threads of the pool and the current thread
\* running whenever they can.
SpecPostFilterFair == SpecPostFilter /\ WF_vars(NextPostFilter)

\* ========================================================= motion_vector.cc
\* The functions of motion_vector.cc are applied to arguments held in fn_call;
\* fn_result holds what they leave behind.

\* ------------------------------------------------- SortWeightIndexStack
MaxSortSize == 4
MaxSortValue == 3

\* DescendingOrderTwo(&a, &b): the values of *a and *b afterwards.
DescendingOrderTwo(a, b) == IF a < b THEN <<b, a>> ELSE <<a, b>>

\* CompareCandidateMotionVectors
CompareCandidateMotionVectors(lhs, rhs) == lhs > rhs

\* std::sort(&stack[0], &stack[size], comp): entry `last` is moved towards
\* the front past every entry comp does not put before it, for last = 2, 3,
\* ... size in turn (stack[1] is weight_index_stack[0]).
RECURSIVE StdSortInsert(_, _)
StdSortInsert(stack, last) ==
  IF last > 1 /\ CompareCandidateMotionVectors(stack[last], stack[last - 1])
    THEN StdSortInsert([stack EXCEPT ![last - 1] = stack[last],
                                     ![last] = stack[last - 1]], last - 1)
    ELSE stack
RECURSIVE StdSortFrom(_, _, _)
StdSortFrom(stack, last, size) ==
  IF last > size THEN stack
  ELSE StdSortFrom(StdSortInsert(stack, last), last + 1, size)
StdSort(size, stack) == StdSortFrom(stack, 2, size)

\* SortWeightIndexStack whose three-entry network lacks its last
\* compare-and-swap.
SortWeightIndexStackTwoSwaps(size, weight_index_stack) ==
  IF size <= 1 THEN weight_index_stack
  ELSE IF size <= 3 THEN
    LET first == DescendingOrderTwo(weight_index_stack[1],
                                    weight_index_stack[2])
    IN IF size = 3
         THEN LET second == DescendingOrderTwo(first[2],
                                               weight_index_stack[3])
              IN [weight_index_stack EXCEPT ![1] = first[1],
                                            ![2] = second[1],
                                            ![3] = second[2]]
         ELSE [weight_index_stack EXCEPT ![1] = first[1], ![2] = first[2]]
  ELSE StdSort(size, weight_index_stack)

\* SortWeightIndexStack(size, weight_index_stack): the stack afterwards.
SortWeightIndexStack(size, weight_index_stack) ==
  IF size <= 1 THEN weight_index_stack
  ELSE IF size <= 3 THEN
    LET first == DescendingOrderTwo(weight_index_stack[1],
                                    weight_index_stack[2])
    IN IF size = 3
         THEN LET second == DescendingOrderTwo(first[2],
                                               weight_index_stack[3])
                  third == DescendingOrderTwo(first[1], second[1])
              IN [weight_index_stack EXCEPT ![1] = third[1],
                                            ![2] = third[2],
                                            ![3] = second[2]]
         ELSE [weight_index_stack EXCEPT ![1] = first[1], ![2] = first[2]]
  ELSE StdSort(size, weight_index_stack)

InitSort ==
  /\ DecoderOff
  /\ PostFilterOff
  /\ \E size \in 0..MaxSortSize,
        stack \in [1..MaxSortSize -> 0..MaxSortValue] :
       fn_call = [function |-> "SortWeightIndexStack", size |-> size,
                  weight_index_stack |-> stack]
  /\ fn_result = [done |-> FALSE]

CallSortWeightIndexStack ==
  /\ fn_call.function = "SortWeightIndexStack"
  /\ ~fn_result.done
  /\ fn_result' = [done |-> TRUE, weight_index_stack |->
                     SortWeightIndexStack(fn_call.size,
                                          fn_call.weight_index_stack)]
  /\ UNCHANGED fn_call
  /\ UNCHANGED <<decoder_vars, pf_vars>>

NextSort == CallSortWeightIndexStack

SpecSort == InitSort /\ [][NextSort]_vars

\* ----------------------------------------------------- LowerMvPrecision
\* The values of an int16_t, and the conversion of an int to int16_t.
Int16 == -(2 ^ 15)..(2 ^ 15 - 1)
ToInt16(value) == ((value + 2 ^ 15) % 2 ^ 16) - 2 ^ 15
Abs(value) == IF value < 0 THEN -value ELSE value
\* mv >> 15 for an int16_t mv promoted to int: 0, or -1 for a negative mv.
SignOf(mv) == IF mv < 0 THEN -1 ELSE 0
\* ApplySign(value, sign) == (value ^ sign) - sign, for sign 0 or -1.
ApplySign(value, sign) ==
  (IF sign = -1 THEN -value - 1 ELSE value) - sign

\* The force_integer_mv branch for one component: (abs(mv) + 3) & ~7 with the
\* sign put back, stored into the int16_t.
LowerToInteger(mv) ==
  LET value == (Abs(mv) + 3) - ((Abs(mv) + 3) % 8)
      sign == SignOf(mv)
  IN ToInt16(ApplySign(value, sign))

\* The last branch without its test of the low bit.
LowerLowBitAlways(mv) ==
  ToInt16(mv - (IF SignOf(mv) = -1 THEN -1 ELSE 1))
\* The last branch for one component: mv -= (mv >> 15) | 1 when mv is odd.
LowerLowBit(mv) ==
  IF mv % 2 # 0
    THEN ToInt16(mv - (IF SignOf(mv) = -1 THEN -1 ELSE 1))
    ELSE mv

\* LowerMvPrecision(block, mvs): mvs->mv afterwards.
LowerMvPrecision(allow_high_precision_mv, force_integer_mv, mv) ==
  IF allow_high_precision_mv THEN mv
  ELSE IF force_integer_mv # 0
    THEN [i \in 1..2 |-> LowerToInteger(mv[i])]
    ELSE [i \in 1..2 |-> LowerLowBit(mv[i])]

\* Every int16_t for the row component, its complement for the column
\* component, in each of the three precision modes.
InitLowerMvPrecision ==
  /\ DecoderOff
  /\ PostFilterOff
  /\ \E value \in Int16,
        mode \in {<<TRUE, 0>>, <<FALSE, 1>>, <<FALSE, 0>>} :
       fn_call = [function |-> "LowerMvPrecision",
                  allow_high_precision_mv |-> mode[1],
                  force_integer_mv |-> mode[2],
                  mv |-> <<value, -1 - value>>]
  /\ fn_result = [done |-> FALSE, calls |-> 0, first |-> <<0, 0>>,
                  mv |-> <<0, 0>>]

\* LowerMvPrecision is called on the vector, and once more on what the first
\* call left.
CallLowerMvPrecision ==
  /\ fn_call.function = "LowerMvPrecision"
  /\ fn_result.calls < 2
  /\ LET mv == LowerMvPrecision(fn_call.allow_high_precision_mv,
                                fn_call.force_integer_mv,
                                IF fn_result.calls = 0 THEN fn_call.mv
                                ELSE fn_result.mv)
     IN fn_result' = [done |-> TRUE, calls |-> fn_result.calls + 1,
                      first |-> IF fn_result.calls = 0 THEN mv
                                ELSE fn_result.first,
                      mv |-> mv]
  /\ UNCHANGED fn_call
  /\ UNCHANGED <<decoder_vars, pf_vars>>

NextLowerMvPrecision == CallLowerMvPrecision

SpecLowerMvPrecision ==
  InitLowerMvPrecision /\ [][NextLowerMvPrecision]_vars

\* ---------------------------------------------------------- FindMvStack
kMaxRefMvStackSize == 8
MaxCandidates == 10

\* The scans of FindMvStack in the order it runs them; TemporalScan only with
\* use_ref_frame_mvs.  nearest_mv_count is taken after the third.
Scans(use_ref_frame_mvs) ==
  <<"ScanRow", "ScanColumn", "ScanPoint">>
  \o (IF use_ref_frame_mvs THEN <<"TemporalScan">> ELSE << >>)
  \o <<"ScanPoint", "ScanRow", "ScanColumn", "ScanRow", "ScanColumn">>

\* The weight a scan passes for a candidate: 2 * step with step 1 for the
\* 4x4 neighbours of ScanRow and ScanColumn, 4 for ScanPoint, 2 for
\* AddTemporalReferenceMvCandidate.
ScanWeight(scan) == IF scan = "ScanPoint" THEN 4 ELSE 2

\* How many candidates one scan can pass to SearchStack: ScanPoint looks at
\* one block (whose two reference frames may both match in single
\* prediction), the other scans at up to 16 positions.
ScanLimit(scan, is_compound) ==
  IF scan = "ScanPoint" THEN (IF is_compound THEN 1 ELSE 2) ELSE 16

\* PredictionParameters::SetWeightIndexStackEntry and IncreaseWeight: the
\* weight above the three bits that hold 7 - index.
WeightIndexEntry(index, weight) == weight * 8 + 7 - index
IncreasedWeight(entry, weight) == entry + weight * 8

\* The capacity test without its equality.
StackFullOffByOne(num_mv_found) == num_mv_found > kMaxRefMvStackSize
\* if (*num_mv_found >= kMaxRefMvStackSize) return;
StackFull(num_mv_found) == num_mv_found >= kMaxRefMvStackSize

\* ref_mv_stack[index] = mv and SetWeightIndexStackEntry(index, weight); an
\* index outside of the arrays is recorded in out_of_bounds.
WriteEntry(pp, index, mv, weight) ==
  IF index \in 0..(kMaxRefMvStackSize - 1)
    THEN [pp EXCEPT !.ref_mv_stack[index] = mv,
                    !.weight_index_stack[index] =
                      WeightIndexEntry(index, weight)]
    ELSE [pp EXCEPT !.out_of_bounds = TRUE]

\* The tail SearchStack and AddTemporalReferenceMvCandidate share: find the
\* candidate among the first num_mv_found entries and increase its weight, or
\* append it unless the stack is full.
AddCandidate(pp, candidate_mv, weight) ==
  LET found == {i \in 0..(pp.num_mv_found - 1) :
                  i < kMaxRefMvStackSize /\ pp.ref_mv_stack[i] = candidate_mv}
  IN IF found # {}
       THEN LET result == CHOOSE i \in found : \A k \in found : i <= k
            IN [pp EXCEPT !.weight_index_stack[result] =
                            IncreasedWeight(@, weight)]
       ELSE IF StackFull(pp.num_mv_found) THEN pp
       ELSE [WriteEntry(pp, pp.num_mv_found, candidate_mv, weight)
               EXCEPT !.num_mv_found = @ + 1]

\* ExtraSearch with `extra` new candidates found by
\* AddExtraSingleMvCandidate (none in compound prediction, where the two
\* entries are put together from ref_id, ref_diff and global_mv).  Motion
\* vector 0 is global_mv, kMaxRefMvStackSize + 1 + i a neighbour's.
RECURSIVE AddExtraSingle(_, _)
AddExtraSingle(pp, extra) ==
  IF extra = 0 THEN pp
  ELSE AddExtraSingle(
         [WriteEntry(pp, pp.num_mv_found,
                     kMaxRefMvStackSize + 1 + pp.num_mv_found, 0)
            EXCEPT !.num_mv_found = @ + 1],
         extra - 1)
RECURSIVE FillWithGlobalMv(_, _)
FillWithGlobalMv(pp, i) ==
  IF i >= 2 THEN pp
  ELSE FillWithGlobalMv(WriteEntry(pp, i, 0, 0), i + 1)
ExtraSearch(pp, is_compound, extra) ==
  IF is_compound
    THEN IF pp.num_mv_found = 1
           THEN [WriteEntry(pp, 1, kMaxRefMvStackSize + 1, 0)
                   EXCEPT !.num_mv_found = 2]
           ELSE [WriteEntry(WriteEntry(pp, 0, kMaxRefMvStackSize + 1, 0),
                            1, kMaxRefMvStackSize + 2, 0)
                   EXCEPT !.num_mv_found = 2]
    ELSE LET added == AddExtraSingle(pp, extra)
         IN FillWithGlobalMv(added, added.num_mv_found)

\* weight_index_stack as the sequence SortWeightIndexStack is given when it
\* is passed weight_index_stack + first, and the array with the sorted
\* entries put back.
StackFrom(pp, first) ==
  [i \in 1..(kMaxRefMvStackSize - first) |->
     pp.weight_index_stack[first + i - 1]]
SortRange(pp, first, size) ==
  LET sorted == SortWeightIndexStack(size, StackFrom(pp, first))
  IN [pp EXCEPT !.weight_index_stack =
        [i \in 0..(kMaxRefMvStackSize - 1) |->
           IF i >= first THEN sorted[i - first + 1]
           ELSE pp.weight_index_stack[i]]]

\* fn_result during FindMvStack: the scan it is in, the candidates that scan
\* and all scans have passed on so far, and prediction_parameters together
\* with the local num_mv_found.
InitFindMvStack ==
  /\ DecoderOff
  /\ PostFilterOff
  /\ \E is_compound \in BOOLEAN, use_ref_frame_mvs \in BOOLEAN :
       fn_call = [function |-> "FindMvStack", is_compound |-> is_compound,
                  use_ref_frame_mvs |-> use_ref_frame_mvs]
  /\ fn_result =
       [done |-> FALSE, scan |-> 1, in_scan |-> 0, candidates |-> 0,
        num_mv_found |-> 0,
        ref_mv_stack |-> [i \in 0..(kMaxRefMvStackSize - 1) |-> -1],
        weight_index_stack |-> [i \in 0..(kMaxRefMvStackSize - 1) |-> 0],
        nearest_mv_count |-> -1, ref_mv_count |-> -1,
        out_of_bounds |-> FALSE]

\* The motion vectors a scan may come up with.  They are numbered by first
\* appearance: 1..num_mv_found are those of the stack, num_mv_found + 1 is
\* one that is not in it; a repeat is always a repeat of the first entry.
CandidateChoices(num_mv_found) == {1, num_mv_found + 1}

\* The running scan passes a neighbour's motion vector to SearchStack (or
\* projects one in AddTemporalReferenceMvCandidate).
FindMvStackCandidate ==
  /\ fn_call.function = "FindMvStack"
  /\ ~fn_result.done
  /\ fn_result.scan <= Len(Scans(fn_call.use_ref_frame_mvs))
  /\ fn_result.candidates < MaxCandidates
  /\ LET scan == Scans(fn_call.use_ref_frame_mvs)[fn_result.scan] IN
     /\ fn_result.in_scan < ScanLimit(scan, fn_call.is_compound)
     /\ \E candidate_mv \in CandidateChoices(fn_result.num_mv_found) :
          fn_result' =
            [AddCandidate(fn_result, candidate_mv, ScanWeight(scan))
               EXCEPT !.in_scan = @ + 1, !.candidates = @ + 1]
  /\ UNCHANGED fn_call
  /\ UNCHANGED <<decoder_vars, pf_vars>>

\* The running scan is over; after the third, nearest_mv_count is set.
FindMvStackNextScan ==
  /\ fn_call.function = "FindMvStack"
  /\ ~fn_result.done
  /\ fn_result.scan <= Len(Scans(fn_call.use_ref_frame_mvs))
  /\ fn_result' =
       [fn_result EXCEPT
          !.scan = @ + 1, !.in_scan = 0,
          !.nearest_mv_count =
            IF fn_result.scan = 3 THEN fn_result.num_mv_found ELSE @]
  /\ UNCHANGED fn_call
  /\ UNCHANGED <<decoder_vars, pf_vars>>

\* After the last scan: ExtraSearch or the two sorts, then ref_mv_count.
FindMvStackReturn ==
  /\ fn_call.function = "FindMvStack"
  /\ ~fn_result.done
  /\ fn_result.scan > Len(Scans(fn_call.use_ref_frame_mvs))
  /\ \E extra \in 0..3 :
       /\ IF fn_result.num_mv_found < 2 /\ ~fn_call.is_compound
            THEN extra <= 3 - fn_result.num_mv_found
            ELSE extra = 0
       /\ LET pp == IF fn_result.num_mv_found < 2
                      THEN ExtraSearch(fn_result, fn_call.is_compound, extra)
                      ELSE SortRange(
                             SortRange(fn_result, 0,
                                       fn_result.nearest_mv_count),
                             fn_result.nearest_mv_count,
                             fn_result.num_mv_found
                               - fn_result.nearest_mv_count)
          IN fn_result' = [pp EXCEPT !.done = TRUE,
                                     !.ref_mv_count = pp.num_mv_found]
  /\ UNCHANGED fn_call
  /\ UNCHANGED <<decoder_vars, pf_vars>>

NextFindMvStack ==
  \/ FindMvStackCandidate
  \/ FindMvStackNextScan
  \/ FindMvStackReturn

SpecFindMvStack == InitFindMvStack /\ [][NextFindMvStack]_vars

\* ===================================================== PrepareCdefBlock
kCdefBorder == 2
kCdefLargeValue == 30000
kRestorationProcessingUnitSizeWithBorders == 70
MaxCdefUnits == 3

\* A cell of cdef_block: set by Memset to a value, copied from the source
\* pixel at an offset from source_buffer_[plane], or never written.
Uninitialized == [from |-> "none", value |-> 0]
MemsetTo(value) == [from |-> "Memset", value |-> value]
SourcePixel(offset) == [from |-> "src", value |-> offset]

\* Align(value, alignment) for a power of two.
Align(value, alignment) ==
  (value + alignment - 1) - ((value + alignment - 1) % alignment)

\* CopyRows(src, src_stride, block_width, unit_width, is_frame_top,
\* is_frame_bottom, is_frame_left, is_frame_right, copy_top, num_rows, dst,
\* dst_stride): the buffer dst points into, afterwards.  src and dst are
\* offsets; a row of unit_width + 2 * kCdefBorder cells is shorter than
\* dst_stride, so a cell belongs to at most one row y.
CopyRows(buffer, src, src_stride, block_width, unit_width, is_frame_top, is_frame_bottom, is_frame_left, is_frame_right, copy_top, num_rows, dst, dst_stride) ==
  IF is_frame_top \/ is_frame_bottom
    THEN LET first == IF is_frame_bottom THEN dst - kCdefBorder ELSE dst
         IN [o \in DOMAIN buffer |->
               IF /\ o >= first
                  /\ (o - first) \div dst_stride < num_rows
                  /\ (o - first) % dst_stride < unit_width + 2 * kCdefBorder
                 THEN MemsetTo(kCdefLargeValue)
                 ELSE buffer[o]]
    ELSE LET from == IF copy_top THEN src - kCdefBorder * src_stride ELSE src
             to == IF copy_top THEN dst + kCdefBorder ELSE dst
             first == to - kCdefBorder
         IN [o \in DOMAIN buffer |->
               IF /\ o >= first
                  /\ (o - first) \div dst_stride < num_rows
                  /\ (o - first) % dst_stride < unit_width + 2 * kCdefBorder
                 THEN LET y == (o - first) \div dst_stride
                          x == ((o - first) % dst_stride) - kCdefBorder
                      IN IF x < 0
                           THEN IF is_frame_left
                                  THEN MemsetTo(kCdefLargeValue)
                                  ELSE SourcePixel(from + y * src_stride + x)
                         ELSE IF x < block_width
                           THEN SourcePixel(from + y * src_stride + x)
                         ELSE IF is_frame_right
                           THEN MemsetTo(kCdefLargeValue)
                           ELSE SourcePixel(from + y * src_stride + x)
                 ELSE buffer[o]]

\* is_frame_right with > for >=.
IsFrameRightStrict(start_x, block_width, plane_width) ==
  start_x + block_width > plane_width
\* is_frame_right of PrepareCdefBlock (is_frame_bottom is the same test on
\* rows).
IsFrameRight(start_x, block_width, plane_width) ==
  start_x + block_width >= plane_width

\* PrepareCdefBlock for one plane of the given subsampling: cdef_src[] of
\* that plane afterwards.
PrepareCdefBlock(call, cdef_source, cdef_stride) ==
  LET subsampling_x == call.subsampling
      subsampling_y == call.subsampling
      start_x == (4 * call.column_64x64) \div 2 ^ subsampling_x
      start_y == (4 * call.row_64x64) \div 2 ^ subsampling_y
      plane_width == RightShiftWithRounding(call.width, subsampling_x)
      plane_height == RightShiftWithRounding(call.height, subsampling_y)
      block_width == (4 * call.block_width4x4) \div 2 ^ subsampling_x
      block_height == (4 * call.block_height4x4) \div 2 ^ subsampling_y
      unit_width == Align(block_width, IF subsampling_x > 0 THEN 4 ELSE 8)
      unit_height == Align(block_height, IF subsampling_y > 0 THEN 4 ELSE 8)
      is_frame_left == call.column_64x64 = 0
      is_frame_right == IsFrameRight(start_x, block_width, plane_width)
      is_frame_top == call.row_64x64 = 0
      is_frame_bottom == IsFrameRight(start_y, block_height, plane_height)
      src_stride == call.src_stride
      src_buffer == start_y * src_stride + start_x
      top == CopyRows(cdef_source, src_buffer, src_stride, block_width,
                      unit_width, is_frame_top, FALSE, is_frame_left,
                      is_frame_right, TRUE, kCdefBorder, 0, cdef_stride)
      cdef_src == kCdefBorder * cdef_stride + kCdefBorder
      body == CopyRows(top, src_buffer, src_stride, block_width, unit_width,
                       FALSE, FALSE, is_frame_left, is_frame_right, FALSE,
                       block_height, cdef_src, cdef_stride)
  IN CopyRows(body, src_buffer + block_height * src_stride, src_stride,
              block_width, unit_width, FALSE, is_frame_bottom, is_frame_left,
              is_frame_right, FALSE,
              kCdefBorder + unit_height - block_height,
              cdef_src + block_height * cdef_stride, cdef_stride)

\* frame_header_.columns4x4 and rows4x4 of a frame of `units` 64x64 units in
\* each direction: the last unit column is whole or 24 pixels wide, and so
\* is the last unit row.
CdefFrameSizes4x4(units) == {16 * (units - 1) + r : r \in {6, 16}}

\* PrepareCdefBlock as ApplyCdefForOneUnit calls it, for every 64x64 unit of
\* a frame whose width and height are multiples of 8 or 7 short of one, for
\* the Y plane and for a plane subsampled in both directions.
InitPrepareCdefBlock ==
  /\ DecoderOff
  /\ PostFilterOff
  /\ \E units \in 1..MaxCdefUnits, crop \in {0, 7}, subsampling \in {0, 1} :
       \E columns4x4 \in CdefFrameSizes4x4(units),
          rows4x4 \in CdefFrameSizes4x4(units),
          column_64x64 \in {16 * (u - 1) : u \in 1..units},
          row_64x64 \in {16 * (u - 1) : u \in 1..units} :
         fn_call = [function |-> "PrepareCdefBlock",
                    columns4x4 |-> columns4x4, rows4x4 |-> rows4x4,
                    width |-> 4 * columns4x4 - crop,
                    height |-> 4 * rows4x4 - crop,
                    subsampling |-> subsampling,
                    src_stride |-> 4 * columns4x4 + 4 * 16,
                    block_width4x4 |-> Min(16, columns4x4 - column_64x64),
                    block_height4x4 |-> Min(16, rows4x4 - row_64x64),
                    row_64x64 |-> row_64x64, column_64x64 |-> column_64x64]
  /\ fn_result = [done |-> FALSE]

\* cdef_block of one plane is kRestorationProcessingUnitSizeWithBorders rows
\* of as many cells, with whatever was in it before the call.
CallPrepareCdefBlock ==
  /\ fn_call.function = "PrepareCdefBlock"
  /\ ~fn_result.done
  /\ fn_result' =
       [done |-> TRUE,
        cdef_block |->
          PrepareCdefBlock(
            fn_call,
            [o \in 0..(kRestorationProcessingUnitSizeWithBorders
                         * kRestorationProcessingUnitSizeWithBorders - 1)
               |-> Uninitialized],
            kRestorationProcessingUnitSizeWithBorders)]
  /\ UNCHANGED fn_call
  /\ UNCHANGED <<decoder_vars, pf_vars>>

NextPrepareCdefBlock == CallPrepareCdefBlock

SpecPrepareCdefBlock ==
  InitPrepareCdefBlock /\ [][NextPrepareCdefBlock]_vars

\* ====================================================== deblock bit masks
\* Largest number of edges a row of a loop filter mask holds in a run.
MaxMaskEdges == 3
\* Largest number of 4x4 rows of the frame that lie in the 64x64 unit.
MaxMaskRows == 4

\* kLoopFilterTransformSizeId4x4, 8x8 and 16x16, and no edge to filter.
kLoopFilterTransformSizeId4x4 == 0
kLoopFilterTransformSizeId8x8 == 1
kLoopFilterTransformSizeId16x16 == 2
NoEdge == 3
EdgeSizes ==
  {kLoopFilterTransformSizeId4x4, kLoopFilterTransformSizeId8x8,
   kLoopFilterTransformSizeId16x16, NoEdge}

\* a & b of two unsigned words.
RECURSIVE BitAnd(_, _)
BitAnd(a, b) ==
  IF a = 0 \/ b = 0 THEN 0
  ELSE (a % 2) * (b % 2) + 2 * BitAnd(a \div 2, b \div 2)

\* a | b of two unsigned words.
RECURSIVE BitOr(_, _)
BitOr(a, b) ==
  IF a = 0 THEN b
  ELSE IF b = 0 THEN a
  ELSE (IF a % 2 = 1 \/ b % 2 = 1 THEN 1 ELSE 0)
         + 2 * BitOr(a \div 2, b \div 2)

\* (masks_->GetTop or GetLeft(unit_id, plane, size_id, index) >> shift) &
\* single_row_mask for a row whose edges have the given sizes: the mask of
\* size_id has the bit of every edge of that size, an edge being column_step
\* bits after the one before.
RECURSIVE RowMask(_, _, _)
RowMask(sizes, size_id, column_step) ==
  IF sizes = << >> THEN 0
  ELSE (IF Head(sizes) = size_id THEN 1 ELSE 0)
         + 2 ^ column_step * RowMask(Tail(sizes), size_id, column_step)

\* A call of dsp_.loop_filters[size][type] for mask size_id on the edge-th
\* 4x4 block of a row of the plane.
FilterCall(row, edge, size_id) == [row |-> row, edge |-> edge, size |-> size_id]

\* const int step = edge_count * column_step; in HorizontalDeblockFilter.
HorizontalStepOneEdge(edge_count, column_step) == column_step
HorizontalStep(edge_count, column_step) == edge_count * column_step

\* The filters one mask of HorizontalDeblockFilter applies at src_row: two
\* edges when both of its bits of two_block_mask are set.
HorizontalMaskCalls(row, edge, mask, size_id, two_block_mask) ==
  IF mask % 2 = 0 THEN << >>
  ELSE IF BitAnd(mask, two_block_mask) = two_block_mask
    THEN <<FilterCall(row, edge, size_id), FilterCall(row, edge + 1, size_id)>>
  ELSE <<FilterCall(row, edge, size_id)>>

\* The loop of HorizontalDeblockFilter over the edges of one row: the calls
\* it makes, src_row being at the edge-th 4x4 block of the row.
RECURSIVE HorizontalRowLoop(_, _, _, _, _, _, _)
HorizontalRowLoop(row, mask4x4, mask8x8, mask16x16, mask, edge, subsampling_x) ==
  IF mask = 0 THEN << >>
  ELSE
    LET column_step == 2 ^ subsampling_x
        two_block_mask == IF subsampling_x > 0 THEN 5 ELSE 3
        calls16 == HorizontalMaskCalls(row, edge, mask16x16,
                     kLoopFilterTransformSizeId16x16, two_block_mask)
        calls8 == HorizontalMaskCalls(row, edge, mask8x8,
                    kLoopFilterTransformSizeId8x8, two_block_mask)
        calls4 == HorizontalMaskCalls(row, edge, mask4x4,
                    kLoopFilterTransformSizeId4x4, two_block_mask)
        calls == IF mask % 2 = 1 THEN calls16 \o calls8 \o calls4 ELSE << >>
        edge_count == IF \E c \in {calls16, calls8, calls4} :
                           mask % 2 = 1 /\ Len(c) = 2
                      THEN 2 ELSE 1
        step == HorizontalStep(edge_count, column_step)
    IN  calls \o HorizontalRowLoop(row, mask4x4 \div 2 ^ step,
                   mask8x8 \div 2 ^ step, mask16x16 \div 2 ^ step,
                   mask \div 2 ^ step, edge + edge_count, subsampling_x)

\* One row of HorizontalDeblockFilter: the three masks are read, and the
\* edges of mask4x4 | mask8x8 | mask16x16 are gone through.
HorizontalDeblockFilterRow(row, sizes, subsampling_x) ==
  LET column_step == 2 ^ subsampling_x
      mask4x4 == RowMask(sizes, kLoopFilterTransformSizeId4x4, column_step)
      mask8x8 == RowMask(sizes, kLoopFilterTransformSizeId8x8, column_step)
      mask16x16 == RowMask(sizes, kLoopFilterTransformSizeId16x16, column_step)
  IN  [masks |-> <<mask4x4, mask8x8, mask16x16>>,
       calls |-> HorizontalRowLoop(row, mask4x4, mask8x8, mask16x16,
                   BitOr(BitOr(mask4x4, mask8x8), mask16x16), 0,
                   subsampling_x)]

\* The filters one mask of VerticalDeblockFilter applies at src_row and
\* src_row_next: mask_0 is of the current row and mask_1 of the next one.
VerticalMaskCalls(row, row_step, edge, mask_0, mask_1, size_id) ==
  IF mask_0 % 2 = 0 /\ mask_1 % 2 = 0 THEN << >>
  ELSE IF mask_0 % 2 = 1 /\ mask_1 % 2 = 1
    THEN <<FilterCall(row, edge, size_id),
           FilterCall(row + row_step, edge, size_id)>>
  ELSE IF mask_0 % 2 = 1 THEN <<FilterCall(row, edge, size_id)>>
  ELSE <<FilterCall(row + row_step, edge, size_id)>>

\* The loop of VerticalDeblockFilter over the edges of two rows; masks_0 and
\* masks_1 are <<mask4x4, mask8x8, mask16x16>> of the two rows.
RECURSIVE VerticalRowLoop(_, _, _, _, _, _, _)
VerticalRowLoop(row, row_step, masks_0, masks_1, mask, edge, subsampling_x) ==
  IF mask = 0 THEN << >>
  ELSE
    LET column_step == 2 ^ subsampling_x
        calls ==
          IF mask % 2 = 0 THEN << >>
          ELSE VerticalMaskCalls(row, row_step, edge, masks_0[3], masks_1[3],
                                 kLoopFilterTransformSizeId16x16)
               \o VerticalMaskCalls(row, row_step, edge, masks_0[2],
                                    masks_1[2], kLoopFilterTransformSizeId8x8)
               \o VerticalMaskCalls(row, row_step, edge, masks_0[1],
                                    masks_1[1], kLoopFilterTransformSizeId4x4)
        shifted(masks) == [i \in 1..3 |-> masks[i] \div 2 ^ column_step]
    IN  calls \o VerticalRowLoop(row, row_step, shifted(masks_0),
                   shifted(masks_1), mask \div 2 ^ column_step, edge + 1,
                   subsampling_x)

\* Two rows of VerticalDeblockFilter.
VerticalDeblockFilterRows(row, row_step, sizes_0, sizes_1, subsampling_x) ==
  LET column_step == 2 ^ subsampling_x
      masks(sizes) ==
        <<RowMask(sizes, kLoopFilterTransformSizeId4x4, column_step),
          RowMask(sizes, kLoopFilterTransformSizeId8x8, column_step),
          RowMask(sizes, kLoopFilterTransformSizeId16x16, column_step)>>
      any(m) == BitOr(BitOr(m[1], m[2]), m[3])
  IN  [masks |-> masks(sizes_0), masks_next |-> masks(sizes_1),
       calls |-> VerticalRowLoop(row, row_step, masks(sizes_0), masks(sizes_1),
                   BitOr(any(masks(sizes_0)), any(masks(sizes_1))), 0,
                   subsampling_x)]

\* The sizes of the edges of the row4x4-th row of the unit, as the masks of
\* the frame hold them: rows past the bottom of the frame have no edge.
MaskRowSizes(call, row4x4) ==
  IF 4 * (call.row4x4_start + row4x4) >= call.height_
    THEN [e \in 1..MaxMaskEdges |-> NoEdge]
  ELSE call.sizes[((row4x4 \div 2 ^ call.subsampling) % 2) + 1]

\* The sizes of a row, each moved shift edges to the left, the first ones to
\* the end.
Rotated(sizes, shift) ==
  [e \in 1..Len(sizes) |-> sizes[((e - 1 + shift) % Len(sizes)) + 1]]

\* HorizontalDeblockFilter or VerticalDeblockFilter is called for a plane
\* and a 64x64 unit of a frame whose masks were built from the transform
\* sizes of its blocks: each edge has one size or is not to be filtered.
\* The rows of the unit hold, in turn, a row of sizes and the same sizes
\* moved by some edges, so that every size meets every size both along a
\* row and down a column.
InitDeblockFilter ==
  /\ DecoderOff
  /\ PostFilterOff
  /\ \E function \in {"HorizontalDeblockFilter", "VerticalDeblockFilter"},
        subsampling \in {0, 1}, row4x4_start \in {0, kNum4x4InLoopFilterMaskUnit},
        rows \in {MaxMaskRows - 1, MaxMaskRows},
        sizes \in [1..MaxMaskEdges -> EdgeSizes], shift \in 0..(MaxMaskEdges - 1) :
       fn_call = [function |-> function, subsampling |-> subsampling,
                  row4x4_start |-> row4x4_start,
                  height_ |-> 4 * (row4x4_start + rows),
                  sizes |-> <<sizes, Rotated(sizes, shift)>>]
  /\ fn_result = [done |-> FALSE, row4x4 |-> 0, rows |-> 0,
                  masks |-> << >>, calls |-> << >>]

\* for (row4x4 = 0; MultiplyBy4(row4x4_start + row4x4) < height_ &&
\*      row4x4 < kNum4x4InLoopFilterMaskUnit; ...)
DeblockRowInFrame ==
  /\ 4 * (fn_call.row4x4_start + fn_result.row4x4) < fn_call.height_
  /\ fn_result.row4x4 < kNum4x4InLoopFilterMaskUnit

\* The row at the top of the frame has no horizontal edge above it.
HorizontalDeblockFilterTopRow ==
  /\ fn_call.function = "HorizontalDeblockFilter"
  /\ ~fn_result.done
  /\ DeblockRowInFrame
  /\ fn_call.row4x4_start + fn_result.row4x4 = 0
  /\ fn_result' = [fn_result EXCEPT
                     !.row4x4 = @ + 2 ^ fn_call.subsampling,
                     !.rows = 0, !.masks = << >>, !.calls = << >>]
  /\ UNCHANGED fn_call
  /\ UNCHANGED <<decoder_vars, pf_vars>>

HorizontalDeblockFilterOneRow ==
  /\ fn_call.function = "HorizontalDeblockFilter"
  /\ ~fn_result.done
  /\ DeblockRowInFrame
  /\ fn_call.row4x4_start + fn_result.row4x4 # 0
  /\ LET row == HorizontalDeblockFilterRow(fn_result.row4x4,
                  MaskRowSizes(fn_call, fn_result.row4x4),
                  fn_call.subsampling)
     IN  fn_result' = [fn_result EXCEPT
                         !.row4x4 = @ + 2 ^ fn_call.subsampling,
                         !.rows = 1, !.masks = <<row.masks>>,
                         !.calls = row.calls]
  /\ UNCHANGED fn_call
  /\ UNCHANGED <<decoder_vars, pf_vars>>

VerticalDeblockFilterTwoRows ==
  /\ fn_call.function = "VerticalDeblockFilter"
  /\ ~fn_result.done
  /\ DeblockRowInFrame
  /\ LET row_step == 2 ^ fn_call.subsampling
         rows == VerticalDeblockFilterRows(fn_result.row4x4, row_step,
                   MaskRowSizes(fn_call, fn_result.row4x4),
                   MaskRowSizes(fn_call, fn_result.row4x4 + row_step),
                   fn_call.subsampling)
     IN  fn_result' = [fn_result EXCEPT
                         !.row4x4 = @ + 2 * row_step,
                         !.rows = 2, !.masks = <<rows.masks, rows.masks_next>>,
                         !.calls = rows.calls]
  /\ UNCHANGED fn_call
  /\ UNCHANGED <<decoder_vars, pf_vars>>

DeblockFilterReturn ==
  /\ fn_call.function \in {"HorizontalDeblockFilter", "VerticalDeblockFilter"}
  /\ ~fn_result.done
  /\ ~DeblockRowInFrame
  /\ fn_result' = [fn_result EXCEPT !.done = TRUE]
  /\ UNCHANGED fn_call
  /\ UNCHANGED <<decoder_vars, pf_vars>>

NextDeblockFilter ==
  \/ HorizontalDeblockFilterTopRow
  \/ HorizontalDeblockFilterOneRow
  \/ VerticalDeblockFilterTwoRows
  \/ DeblockFilterReturn

SpecDeblockFilter == InitDeblockFilter /\ [][NextDeblockFilter]_vars

\* =================================================== self-guided filter
\* 1 << kSgrProjPrecisionBits is the sum the weights of the self-guided
\* filter are to have.
kSgrProjPrecisionBits == 7

\* The range of sgr_proj_info.multiplier[0] and [1] as the bitstream codes
\* them.
kSgrProjMultiplierMin == <<-96, -32>>
kSgrProjMultiplierMax == <<31, 95>>

\* const int16_t w = value;
SgrWeightInt8(value) == ((value + 2 ^ 7) % 2 ^ 8) - 2 ^ 7
SgrWeight(value) == ToInt16(value)

\* The weights of BoxFilterProcess, both radii being in use.
BoxFilterProcess(sgr_proj_info) ==
  LET w0 == SgrWeight(sgr_proj_info.multiplier[1])
      w1 == SgrWeight(sgr_proj_info.multiplier[2])
      w2 == SgrWeight(2 ^ kSgrProjPrecisionBits - w0 - w1)
  IN  [pass |-> "BoxFilterProcess", w0 |-> w0, w1 |-> w1, w2 |-> w2]

\* The weight of BoxFilterProcessPass1, radius_pass_1 being 0.
BoxFilterProcessPass1(sgr_proj_info) ==
  [pass |-> "BoxFilterProcessPass1",
   w0 |-> SgrWeight(sgr_proj_info.multiplier[1]), w1 |-> 0, w2 |-> 0]

\* The weights of BoxFilterProcessPass2, radius_pass_0 being 0.
BoxFilterProcessPass2(sgr_proj_info) ==
  LET w1 == SgrWeight(sgr_proj_info.multiplier[2])
      w0 == SgrWeight(2 ^ kSgrProjPrecisionBits - w1)
  IN  [pass |-> "BoxFilterProcessPass2", w0 |-> w0, w1 |-> w1, w2 |-> 0]

\* SelfGuidedFilter_SSE4_1: the pass is chosen by the radii of
\* kSgrProjParams[index].
SelfGuidedFilter(sgr_proj_info) ==
  IF sgr_proj_info.radius_pass_1 = 0 THEN BoxFilterProcessPass1(sgr_proj_info)
  ELSE IF sgr_proj_info.radius_pass_0 = 0
    THEN BoxFilterProcessPass2(sgr_proj_info)
  ELSE BoxFilterProcess(sgr_proj_info)

\* The radii of kSgrProjParams[index]: 2 or 0, and 1 or 0, never both 0.
SgrRadii == {<<2, 1>>, <<0, 1>>, <<2, 0>>}

\* A restoration unit of type kLoopRestorationTypeSgrProj as the parser
\* leaves it: the multipliers are in their ranges, and multiplier[0] is 0
\* when radius_pass_0 is.
InitSelfGuidedFilter ==
  /\ DecoderOff
  /\ PostFilterOff
  /\ \E radii \in SgrRadii,
        multiplier_0 \in kSgrProjMultiplierMin[1]..kSgrProjMultiplierMax[1],
        multiplier_1 \in kSgrProjMultiplierMin[2]..kSgrProjMultiplierMax[2] :
       /\ radii[1] = 0 => multiplier_0 = 0
       /\ fn_call = [function |-> "SelfGuidedFilter",
                     radius_pass_0 |-> radii[1], radius_pass_1 |-> radii[2],
                     multiplier |-> <<multiplier_0, multiplier_1>>]
  /\ fn_result = [done |-> FALSE]

CallSelfGuidedFilter ==
  /\ fn_call.function = "SelfGuidedFilter"
  /\ ~fn_result.done
  /\ fn_result' = [done |-> TRUE, weights |-> SelfGuidedFilter(fn_call)]
  /\ UNCHANGED fn_call
  /\ UNCHANGED <<decoder_vars, pf_vars>>

NextSelfGuidedFilter == CallSelfGuidedFilter

SpecSelfGuidedFilter == InitSelfGuidedFilter /\ [][NextSelfGuidedFilter]_vars

\* ============================================= ApplyDeblockFilterThreaded
\* for (auto& type : {kLoopFilterTypeVertical, kLoopFilterTypeHorizontal})
LoopFilterTypes == <<"kLoopFilterTypeVertical", "kLoopFilterTypeHorizontal">>

\* job_counter->fetch_add(1, std::memory_order_relaxed): the value read and
\* the value left behind, in one atomic step.
FetchAddLoadOnly(job_counter) ==
  [job_index |-> job_counter, job_counter |-> job_counter]
FetchAdd(job_counter) ==
  [job_index |-> job_counter, job_counter |-> job_counter + 1]

\* const int total_jobs = jobs_per_plane * num_planes;
DeblockTotalJobs(cfg) == cfg.jobs_per_plane * cfg.num_planes

\* A thread in DeblockFilterWorker: about to evaluate the loop condition, or
\* filtering the 64-row unit job_index of its pass.
DeblockWorker(at, pass, job_index) ==
  [at |-> at, pass |-> pass, job_index |-> job_index]

\* The loop condition of DeblockFilterWorker, evaluated by a thread that
\* works on pass: the thread after it and the counters after it.
DeblockFetch(cfg, pass, job_counter, after_loop) ==
  LET fetched == FetchAdd(job_counter[pass])
  IN  [worker |-> IF fetched.job_index < DeblockTotalJobs(cfg)
                    THEN DeblockWorker("filter", pass, fetched.job_index)
                    ELSE DeblockWorker(after_loop, pass, -1),
       job_counter |-> [job_counter EXCEPT ![pass] = fetched.job_counter]]

\* The calls (this->*deblock_filter)(plane, row4x4, ...) of a pass so far:
\* how often the unit of each job_index has been begun and finished.
DeblockCount(log, pass, job_index, event) ==
  [log EXCEPT ![pass][job_index + 1][event] = @ + 1]

\* planes[]: Y, and the chroma planes whose loop_filter.level is not 0.
DeblockPlaneCounts == {1, 3}

\* ApplyDeblockFilterThreaded is called: jobs_per_plane, num_workers and
\* num_planes are computed, nothing is scheduled yet.
InitDeblockThreaded ==
  /\ DecoderOff
  /\ FunctionOff
  /\ \E rows4x4 \in FrameRows4x4, num_workers \in 1..MaxWorkers,
        num_planes \in DeblockPlaneCounts :
       pf_cfg = [mode |-> "ApplyDeblockFilterThreaded", rows4x4 |-> rows4x4,
                 jobs_per_plane |-> (rows4x4 + 15) \div 16,
                 num_workers |-> num_workers, num_planes |-> num_planes]
  /\ pf_pc = [at |-> "construct", pass |-> 1, i |-> 0, job_index |-> -1,
              job_counter |-> <<0, 0>>]
  /\ pf_jobs = << >>
  /\ pf_pending = <<0, 0>>
  /\ pf_log = [pass \in 1..2 |->
                 [job \in 1..DeblockTotalJobs(pf_cfg) |->
                    [begun |-> 0, finished |-> 0]]]

\* BlockingCounter pending_workers(num_workers): the count it starts with.
PendingWorkersNone(num_workers) == 0
PendingWorkers(num_workers) == num_workers

\* std::atomic<int> job_counter(0); BlockingCounter
\* pending_workers(num_workers);
DeblockConstruct ==
  /\ pf_cfg.mode = "ApplyDeblockFilterThreaded"
  /\ pf_pc.at = "construct"
  /\ pf_pc' = [pf_pc EXCEPT !.at = "schedule", !.i = 0,
                            !.job_counter[pf_pc.pass] = 0]
  /\ pf_pending' = [pf_pending EXCEPT
                      ![pf_pc.pass] = PendingWorkers(pf_cfg.num_workers)]
  /\ UNCHANGED <<pf_cfg, pf_jobs, pf_log>>
  /\ UNCHANGED <<decoder_vars, fn_vars>>

\* thread_pool_->Schedule(...) for the i-th worker of the pass.
DeblockSchedule ==
  /\ pf_cfg.mode = "ApplyDeblockFilterThreaded"
  /\ pf_pc.at = "schedule"
  /\ IF pf_pc.i < pf_cfg.num_workers
       THEN /\ pf_jobs' = Append(pf_jobs,
                                 DeblockWorker("queued", pf_pc.pass, -1))
            /\ pf_pc' = [pf_pc EXCEPT !.i = @ + 1]
       ELSE /\ pf_pc' = [pf_pc EXCEPT !.at = "fetch"]
            /\ UNCHANGED pf_jobs
  /\ UNCHANGED <<pf_cfg, pf_pending, pf_log>>
  /\ UNCHANGED <<decoder_vars, fn_vars>>

\* The current thread evaluates the loop condition of DeblockFilterWorker.
DeblockCurrentFetch ==
  /\ pf_cfg.mode = "ApplyDeblockFilterThreaded"
  /\ pf_pc.at = "fetch"
  /\ LET after == DeblockFetch(pf_cfg, pf_pc.pass, pf_pc.job_counter, "wait")
     IN  /\ pf_pc' = [pf_pc EXCEPT !.at = after.worker.at,
                                   !.job_index = after.worker.job_index,
                                   !.job_counter = after.job_counter]
         /\ pf_log' = IF after.worker.at = "filter"
                        THEN DeblockCount(pf_log, pf_pc.pass,
                                          after.worker.job_index, "begun")
                        ELSE pf_log
  /\ UNCHANGED <<pf_cfg, pf_jobs, pf_pending>>
  /\ UNCHANGED <<decoder_vars, fn_vars>>

\* The current thread has filtered the columns of its unit.
DeblockCurrentFilter ==
  /\ pf_cfg.mode = "ApplyDeblockFilterThreaded"
  /\ pf_pc.at = "filter"
  /\ pf_pc' = [pf_pc EXCEPT !.at = "fetch", !.job_index = -1]
  /\ pf_log' = DeblockCount(pf_log, pf_pc.pass, pf_pc.job_index, "finished")
  /\ UNCHANGED <<pf_cfg, pf_jobs, pf_pending>>
  /\ UNCHANGED <<decoder_vars, fn_vars>>

\* pending_workers.Wait() returns; the objects of the pass go out of scope
\* and the next pass begins, or the function returns.
DeblockWait ==
  /\ pf_cfg.mode = "ApplyDeblockFilterThreaded"
  /\ pf_pc.at = "wait"
  /\ BlockingCounterWait(pf_pending[pf_pc.pass])
  /\ pf_pc' = IF pf_pc.pass < Len(LoopFilterTypes)
                THEN [pf_pc EXCEPT !.at = "construct", !.pass = @ + 1]
                ELSE [pf_pc EXCEPT !.at = "done"]
  /\ UNCHANGED <<pf_cfg, pf_jobs, pf_pending, pf_log>>
  /\ UNCHANGED <<decoder_vars, fn_vars>>

\* A thread of the pool takes the oldest scheduled function.
DeblockPoolStart ==
  /\ pf_cfg.mode = "ApplyDeblockFilterThreaded"
  /\ \E w \in 1..Len(pf_jobs) :
       /\ pf_jobs[w].at = "queued"
       /\ \A v \in 1..(w - 1) : pf_jobs[v].at # "queued"
       /\ Cardinality({v \in 1..Len(pf_jobs) :
                         pf_jobs[v].at \notin {"queued", "done"}})
            < pf_cfg.num_workers
       /\ pf_jobs' = [pf_jobs EXCEPT ![w].at = "fetch"]
  /\ UNCHANGED <<pf_cfg, pf_pc, pf_pending, pf_log>>
  /\ UNCHANGED <<decoder_vars, fn_vars>>

\* A thread of the pool evaluates the loop condition of DeblockFilterWorker.
DeblockPoolFetch ==
  /\ pf_cfg.mode = "ApplyDeblockFilterThreaded"
  /\ \E w \in 1..Len(pf_jobs) :
       /\ pf_jobs[w].at = "fetch"
       /\ LET after == DeblockFetch(pf_cfg, pf_jobs[w].pass,
                                    pf_pc.job_counter, "decrement")
          IN  /\ pf_jobs' = [pf_jobs EXCEPT ![w] = after.worker]
              /\ pf_pc' = [pf_pc EXCEPT !.job_counter = after.job_counter]
              /\ pf_log' = IF after.worker.at = "filter"
                             THEN DeblockCount(pf_log, pf_jobs[w].pass,
                                               after.worker.job_index, "begun")
                             ELSE pf_log
  /\ UNCHANGED <<pf_cfg, pf_pending>>
  /\ UNCHANGED <<decoder_vars, fn_vars>>

\* A thread of the pool has filtered the columns of its unit.
DeblockPoolFilter ==
  /\ pf_cfg.mode = "ApplyDeblockFilterThreaded"
  /\ \E w \in 1..Len(pf_jobs) :
       /\ pf_jobs[w].at = "filter"
       /\ pf_jobs' = [pf_jobs EXCEPT ![w].at = "fetch", ![w].job_index = -1]
       /\ pf_log' = DeblockCount(pf_log, pf_jobs[w].pass,
                                 pf_jobs[w].job_index, "finished")
  /\ UNCHANGED <<pf_cfg, pf_pc, pf_pending>>
  /\ UNCHANGED <<decoder_vars, fn_vars>>

\* pending_workers.Decrement(); ends the scheduled function.
DeblockPoolDecrement ==
  /\ pf_cfg.mode = "ApplyDeblockFilterThreaded"
  /\ \E w \in 1..Len(pf_jobs) :
       /\ pf_jobs[w].at = "decrement"
       /\ pf_jobs' = [pf_jobs EXCEPT ![w].at = "done"]
       /\ pf_pending' = [pf_pending EXCEPT ![pf_jobs[w].pass] = @ - 1]
  /\ UNCHANGED <<pf_cfg, pf_pc, pf_log>>
  /\ UNCHANGED <<decoder_vars, fn_vars>>

NextDeblockThreaded ==
  \/ DeblockConstruct
  \/ DeblockSchedule
  \/ DeblockCurrentFetch
  \/ DeblockCurrentFilter
  \/ DeblockWait
  \/ DeblockPoolStart
  \/ DeblockPoolFetch
  \/ DeblockPoolFilter
  \/ DeblockPoolDecrement

SpecDeblockThreaded == InitDeblockThreaded /\ [][NextDeblockThreaded]_vars

\* Every thread that can take a step of ApplyDeblockFilterThreaded takes one
\* in the end: the pool threads and the current thread run until they block.
SpecDeblockThreadedFair ==
  SpecDeblockThreaded /\ WF_vars(NextDeblockThreaded)

\* ----------------------------------------------------------- ExtraSearch
\* Largest number of neighbouring blocks the two passes of ExtraSearch come
\* by in a run.
MaxExtraNeighbours == 3

\* kReferenceFrameIntra; kReferenceFrameNone is below it, the inter frames
\* above.
kReferenceFrameIntra == 0
InterFrames == {1, 2}

\* A CandidateMotionVector of ref_mv_stack: mv[0] and mv[1], and which of the
\* two have been written.
StackEntry(mv_0, mv_1, written_0, written_1) ==
  [mv |-> <<mv_0, mv_1>>, written |-> <<written_0, written_1>>]
\* CandidateMotionVector{}: both motion vectors zero.
ZeroEntry == StackEntry(0, 0, TRUE, TRUE)
UnwrittenEntry == StackEntry(0, 0, FALSE, FALSE)

\* candidate_mv of AddExtraCompoundMvCandidate and
\* AddExtraSingleMvCandidate: bp.mv.mv[i], negated when the sign biases of
\* the two reference frames differ.
SignAdjustedNever(mv, candidate_frame, block_frame, sign_bias) == mv
SignAdjusted(mv, candidate_frame, block_frame, sign_bias) ==
  IF sign_bias[candidate_frame] # sign_bias[block_frame] THEN -mv ELSE mv

\* The body of the loops over i and j of AddExtraCompoundMvCandidate.
AddExtraCompoundStep(s, bp, block_frames, sign_bias, i, j) ==
  IF bp.reference_frame[i] = block_frames[j] /\ s.ref_id_count[j] < 2
    THEN [s EXCEPT !.ref_id[j][s.ref_id_count[j] + 1] = bp.mv[i],
                   !.ref_id_count[j] = @ + 1]
  ELSE IF s.ref_diff_count[j] < 2
    THEN [s EXCEPT !.ref_diff[j][s.ref_diff_count[j] + 1] =
                     SignAdjusted(bp.mv[i], bp.reference_frame[i],
                                  block_frames[j], sign_bias),
                   !.ref_diff_count[j] = @ + 1]
  ELSE s

\* AddExtraCompoundMvCandidate for the block bp at (mv_row, mv_column); the
\* indices 1 and 2 stand for 0 and 1.
AddExtraCompoundMvCandidate(s, bp, block_frames, sign_bias) ==
  LET for_i(t, i) ==
        IF bp.reference_frame[i] <= kReferenceFrameIntra THEN t
        ELSE AddExtraCompoundStep(
               AddExtraCompoundStep(t, bp, block_frames, sign_bias, i, 1),
               bp, block_frames, sign_bias, i, 2)
  IN  for_i(for_i(s, 1), 2)

\* AddExtraSingleMvCandidate for the block bp at (mv_row, mv_column).
AddExtraSingleMvCandidate(s, bp, block_frames, sign_bias) ==
  LET for_i(t, i) ==
        IF bp.reference_frame[i] <= kReferenceFrameIntra THEN t
        ELSE
          LET candidate_mv == SignAdjusted(bp.mv[i], bp.reference_frame[i],
                                           block_frames[1], sign_bias)
          IN  IF \/ t.num_mv_found # 0
                    /\ t.ref_mv_stack[0].mv[1] = candidate_mv
                 \/ t.num_mv_found = 2
                    /\ t.ref_mv_stack[1].mv[1] = candidate_mv
                THEN t
              ELSE [t EXCEPT
                      !.ref_mv_stack[t.num_mv_found] =
                        StackEntry(candidate_mv, 0, TRUE, TRUE),
                      !.weight_index_stack[t.num_mv_found] =
                        WeightIndexEntry(t.num_mv_found, 0),
                      !.num_mv_found = @ + 1]
  IN  for_i(for_i(s, 1), 2)

\* The loop over i of one pass of ExtraSearch: blocks holds the blocks the
\* pass comes by before IsTopLeftInside fails or num4x4 is reached.
RECURSIVE ExtraSearchPass(_, _, _, _, _)
ExtraSearchPass(s, blocks, is_compound, block_frames, sign_bias) ==
  IF blocks = << >> THEN s
  ELSE IF is_compound
    THEN ExtraSearchPass(
           AddExtraCompoundMvCandidate(s, Head(blocks), block_frames,
                                       sign_bias),
           Tail(blocks), is_compound, block_frames, sign_bias)
  ELSE
    LET t == AddExtraSingleMvCandidate(s, Head(blocks), block_frames,
                                       sign_bias)
    IN  IF t.num_mv_found >= 2 THEN t
        ELSE ExtraSearchPass(t, Tail(blocks), is_compound, block_frames,
                             sign_bias)

\* combined_mvs[count].mv[i] for count 0 and 1: ref_id[i], then ref_diff[i],
\* then global_mv[i].
CombinedMvs(s, global_mv, i) ==
  LET ids == SubSeq(s.ref_id[i], 1, s.ref_id_count[i])
      diffs == SubSeq(s.ref_diff[i], 1,
                      Min(s.ref_diff_count[i], 2 - Len(ids)))
      globals == [k \in 1..(2 - Len(ids) - Len(diffs)) |-> global_mv[i]]
  IN  ids \o diffs \o globals

\* ExtraSearch for a block whose scans have left num_mv_found below 2.
ExtraSearchOfBlock(call, pp) ==
  LET start == pp @@ [ref_id_count |-> <<0, 0>>,
                      ref_id |-> <<<<0, 0>>, <<0, 0>>>>,
                      ref_diff_count |-> <<0, 0>>,
                      ref_diff |-> <<<<0, 0>>, <<0, 0>>>>]
      pass_0 == ExtraSearchPass(start, call.above, call.is_compound,
                                call.reference_frame,
                                call.reference_frame_sign_bias)
      pass_1 == IF pass_0.num_mv_found < 2
                  THEN ExtraSearchPass(pass_0, call.left, call.is_compound,
                                       call.reference_frame,
                                       call.reference_frame_sign_bias)
                  ELSE pass_0
      combined_mvs ==
        [count \in 1..2 |->
           StackEntry(CombinedMvs(pass_1, call.global_mv, 1)[count],
                      CombinedMvs(pass_1, call.global_mv, 2)[count],
                      TRUE, TRUE)]
      set(s, i, entry) ==
        [s EXCEPT !.ref_mv_stack[i] = entry,
                  !.weight_index_stack[i] = WeightIndexEntry(i, 0)]
      global(s, i) ==
        [s EXCEPT !.ref_mv_stack[i].mv[1] = call.global_mv[1],
                  !.ref_mv_stack[i].written[1] = TRUE,
                  !.weight_index_stack[i] = WeightIndexEntry(i, 0)]
  IN  IF call.is_compound
        THEN [(IF pass_1.num_mv_found = 1
                 THEN IF combined_mvs[1] = pass_1.ref_mv_stack[0]
                        THEN set(pass_1, 1, combined_mvs[2])
                        ELSE set(pass_1, 1, combined_mvs[1])
                 ELSE set(set(pass_1, 0, combined_mvs[1]), 1, combined_mvs[2]))
                EXCEPT !.num_mv_found = 2]
      ELSE IF pass_1.num_mv_found = 0 THEN global(global(pass_1, 0), 1)
      ELSE IF pass_1.num_mv_found = 1 THEN global(pass_1, 1)
      ELSE pass_1

\* The blocks a pass can come by: intra blocks, blocks with one reference
\* frame and blocks with two, with two different motion vectors for mv[0].
ExtraNeighbours ==
  {[reference_frame |-> <<kReferenceFrameIntra, kReferenceFrameIntra - 1>>,
    mv |-> <<0, 0>>]}
  \cup {[reference_frame |-> <<frame, kReferenceFrameIntra - 1>>,
         mv |-> <<mv, 0>>] : frame \in InterFrames, mv \in {1, 2}}
  \cup {[reference_frame |-> <<frame, 3 - frame>>, mv |-> <<mv, mv + 2>>] :
          frame \in InterFrames, mv \in {1, 2}}

\* All sequences of at most n neighbours.
RECURSIVE NeighbourLists(_)
NeighbourLists(n) ==
  IF n = 0 THEN {<< >>}
  ELSE NeighbourLists(n - 1)
       \cup {Append(list, bp) : list \in {l \in NeighbourLists(n - 1) :
                                            Len(l) = n - 1},
                               bp \in ExtraNeighbours}

\* FindMvStack has run its scans and found no candidate or one; ExtraSearch
\* is about to be called.  The entry the scans found is one of a neighbour's
\* motion vectors or the global one.
InitExtraSearch ==
  /\ DecoderOff
  /\ PostFilterOff
  /\ \E is_compound \in BOOLEAN, differ \in BOOLEAN,
        blocks \in NeighbourLists(MaxExtraNeighbours),
        found \in {<< >>, <<1, 3>>, <<2, 4>>, <<5, 6>>} :
       fn_call = [function |-> "ExtraSearch", is_compound |-> is_compound,
                  reference_frame |->
                    IF is_compound THEN <<1, 2>>
                    ELSE <<1, kReferenceFrameIntra - 1>>,
                  reference_frame_sign_bias |-> <<FALSE, differ>>,
                  global_mv |-> <<5, 6>>,
                  above |-> SubSeq(blocks, 1, (Len(blocks) + 1) \div 2),
                  left |-> SubSeq(blocks, (Len(blocks) + 1) \div 2 + 1,
                                  Len(blocks)),
                  num_mv_found |-> Len(found) \div 2,
                  found |-> found]
  /\ fn_result = [done |-> FALSE]

\* if (num_mv_found < 2) ExtraSearch(...); ...; ref_mv_count = num_mv_found;
CallExtraSearch ==
  /\ fn_call.function = "ExtraSearch"
  /\ ~fn_result.done
  /\ LET pp == [num_mv_found |-> fn_call.num_mv_found,
                ref_mv_stack |->
                  [i \in 0..(kMaxRefMvStackSize - 1) |->
                     IF i < fn_call.num_mv_found
                       THEN StackEntry(fn_call.found[1],
                              IF fn_call.is_compound THEN fn_call.found[2]
                              ELSE 0, TRUE, fn_call.is_compound)
                       ELSE UnwrittenEntry],
                weight_index_stack |->
                  [i \in 0..(kMaxRefMvStackSize - 1) |->
                     IF i < fn_call.num_mv_found
                       THEN WeightIndexEntry(i, 2) ELSE 0]]
         after == ExtraSearchOfBlock(fn_call, pp)
     IN  fn_result' = [done |-> TRUE, before |-> pp, after |-> after,
                       ref_mv_count |-> after.num_mv_found]
  /\ UNCHANGED fn_call
  /\ UNCHANGED <<decoder_vars, pf_vars>>

NextExtraSearch == CallExtraSearch

SpecExtraSearch == InitExtraSearch /\ [][NextExtraSearch]_vars

\* ------------------------------------------------------- FindWarpSamples
\* Widths and heights, in 4x4 units, of the blocks FindWarpSamples is run
\* on and of their neighbours.
WarpBlockSizes4x4 == {1, 2, 4}
WarpSourceSizes4x4 == {1, 2, 4, 8}
kMaxLeastSquaresSamples == 8
kReferenceFrameNone == -1

\* kWarpValidThreshold[block.size]:
\* Clip3(max(kBlockWidthPixels, kBlockHeightPixels), 16, 112).
Max(a, b) == IF a > b THEN a ELSE b
kWarpValidThreshold(width4x4, height4x4) ==
  Max(16, Min(112, 4 * Max(width4x4, height4x4)))

\* The block parameters AddSample can find at a position: none (outside the
\* tile or not decoded yet), or a block of the given size with one or two
\* reference frames and a motion vector that is at the threshold or one
\* beyond it (the block's own motion vector is 0).
NoParameters == [has_parameters |-> FALSE]
WarpNeighbours(size) ==
  {NoParameters}
  \cup {[has_parameters |-> TRUE, reference_frame |-> frames, size4x4 |-> size,
         mv |-> <<row, 0>>] :
          frames \in {<<1, kReferenceFrameNone>>, <<2, kReferenceFrameNone>>,
                      <<1, 2>>},
          row \in {16, 17}}

\* value & ~(size - 1) for a power of two size and value >= 0.
AlignDown(value, size) == value - (value % size)

\* is_valid of AddSample.
IsValidSampleAlways(call, bp) == TRUE
IsValidSample(call, bp) ==
  Abs(bp.mv[1] - call.mv[1]) + Abs(bp.mv[2] - call.mv[2])
    <= kWarpValidThreshold(call.width4x4, call.height4x4)

\* AddSample(block, delta_row, delta_column, num_warp_samples,
\* num_samples_scanned, candidates) with bp the parameters at the position.
AddSample(call, r, delta_row, delta_column, bp) ==
  IF r.num_samples_scanned >= kMaxLeastSquaresSamples THEN r
  ELSE IF ~bp.has_parameters THEN r
  ELSE IF \/ bp.reference_frame[1] # call.reference_frame[1]
          \/ bp.reference_frame[2] # kReferenceFrameNone THEN r
  ELSE
    LET scanned == r.num_samples_scanned + 1
        mv_row == call.row4x4 + delta_row
        mv_column == call.column4x4 + delta_column
        candidate_row == AlignDown(mv_row, bp.size4x4)
        candidate_column == AlignDown(mv_column, bp.size4x4)
        is_valid == IsValidSample(call, bp)
        mid_y == 4 * candidate_row + 2 * bp.size4x4 - 1
        mid_x == 4 * candidate_column + 2 * bp.size4x4 - 1
        counted ==
          [r EXCEPT !.num_samples_scanned = scanned,
                    !.first = IF scanned = 1
                                THEN [delta |-> <<delta_row, delta_column>>,
                                      size4x4 |-> bp.size4x4, mv |-> bp.mv]
                                ELSE @]
    IN  IF ~is_valid /\ scanned > 1 THEN counted
        ELSE [counted EXCEPT
                !.candidates[r.num_warp_samples] =
                  <<8 * mid_y, 8 * mid_x, 8 * mid_y + bp.mv[1],
                    8 * mid_x + bp.mv[2]>>,
                !.num_warp_samples = IF is_valid THEN @ + 1 ELSE @]

\* The blocks FindWarpSamples is called for, with the counters at 0: the
\* blocks of the row above are of one size and those of the column to the
\* left are of one size.
FrameSize4x4 == 16
InitFindWarpSamples ==
  /\ DecoderOff
  /\ PostFilterOff
  /\ \E top \in BOOLEAN, left \in BOOLEAN, width4x4 \in WarpBlockSizes4x4,
        height4x4 \in WarpBlockSizes4x4, across \in 0..1,
        top_size \in WarpSourceSizes4x4, left_size \in WarpSourceSizes4x4 :
       fn_call = [function |-> "FindWarpSamples",
                  top_available |-> top, left_available |-> left,
                  width4x4 |-> width4x4, height4x4 |-> height4x4,
                  row4x4 |-> FrameSize4x4 \div 2 + across * height4x4,
                  top_size4x4 |-> top_size, left_size4x4 |-> left_size,
                  column4x4 |-> FrameSize4x4 \div 2 + across * width4x4,
                  reference_frame |-> <<1, kReferenceFrameNone>>,
                  mv |-> <<0, 0>>]
  /\ fn_result = [done |-> FALSE, at |-> "top", i |-> 0, step |-> 1,
                  top_left |-> TRUE, top_right |-> TRUE,
                  num_samples_scanned |-> 0, num_warp_samples |-> 0,
                  candidates |->
                    [k \in 0..(kMaxLeastSquaresSamples - 1) |-> <<0, 0, 0, 0>>],
                  first |-> NoParameters]

\* One pass of the loop over the row above: source_size, step, AddSample,
\* i += step, and the loop condition.
WarpTopIteration(call, r, bp) ==
  LET step == Min(call.width4x4, bp.size4x4)
      next_i == r.i + step
      added == AddSample(call, r, -1, r.i, bp)
  IN  [added EXCEPT !.step = step, !.i = next_i,
         !.at = IF next_i < Min(call.width4x4,
                                FrameSize4x4 - call.column4x4)
                  THEN "top_loop" ELSE "left"]
WarpLeftIteration(call, r, bp) ==
  LET step == Min(call.height4x4, bp.size4x4)
      next_i == r.i + step
      added == AddSample(call, r, r.i, -1, bp)
  IN  [added EXCEPT !.step = step, !.i = next_i,
         !.at = IF next_i < Min(call.height4x4,
                                FrameSize4x4 - call.row4x4)
                  THEN "left_loop" ELSE "top_left"]

\* if (block.top_available[kPlaneY]) { ... }: the one sample of a source
\* block at least as wide as the block, or the first pass of the loop.
FindWarpSamplesTop ==
  /\ fn_call.function = "FindWarpSamples"
  /\ fn_result.at = "top"
  /\ IF ~fn_call.top_available
       THEN fn_result' = [fn_result EXCEPT !.at = "left"]
       ELSE \E bp \in WarpNeighbours(fn_call.top_size4x4) \ {NoParameters} :
              LET source_width4x4 == bp.size4x4
                  column_offset ==
                    -(fn_call.column4x4 % source_width4x4)
              IN  IF fn_call.width4x4 <= source_width4x4
                    THEN fn_result' =
                      [AddSample(fn_call, fn_result, -1, 0, bp) EXCEPT
                         !.top_left = IF column_offset < 0 THEN FALSE ELSE @,
                         !.top_right =
                           IF column_offset + source_width4x4
                                > fn_call.width4x4 THEN FALSE ELSE @,
                         !.at = "left"]
                    ELSE fn_result' = WarpTopIteration(fn_call, fn_result, bp)
  /\ UNCHANGED fn_call
  /\ UNCHANGED <<decoder_vars, pf_vars>>

\* A later pass of the loop over the row above.
FindWarpSamplesTopLoop ==
  /\ fn_call.function = "FindWarpSamples"
  /\ fn_result.at = "top_loop"
  /\ \E bp \in WarpNeighbours(fn_call.top_size4x4) \ {NoParameters} :
       fn_result' = WarpTopIteration(fn_call, fn_result, bp)
  /\ UNCHANGED fn_call
  /\ UNCHANGED <<decoder_vars, pf_vars>>

\* if (block.left_available[kPlaneY]) { ... }
FindWarpSamplesLeft ==
  /\ fn_call.function = "FindWarpSamples"
  /\ fn_result.at = "left"
  /\ IF ~fn_call.left_available
       THEN fn_result' = [fn_result EXCEPT !.at = "top_left"]
       ELSE \E bp \in WarpNeighbours(fn_call.left_size4x4) \ {NoParameters} :
              LET source_height4x4 == bp.size4x4
                  row_offset == -(fn_call.row4x4 % source_height4x4)
              IN  IF fn_call.height4x4 <= source_height4x4
                    THEN fn_result' =
                      [AddSample(fn_call, fn_result, 0, -1, bp) EXCEPT
                         !.top_left = IF row_offset < 0 THEN FALSE ELSE @,
                         !.at = "top_left"]
                    ELSE fn_result' =
                      WarpLeftIteration(fn_call,
                                        [fn_result EXCEPT !.i = 0], bp)
  /\ UNCHANGED fn_call
  /\ UNCHANGED <<decoder_vars, pf_vars>>

FindWarpSamplesLeftLoop ==
  /\ fn_call.function = "FindWarpSamples"
  /\ fn_result.at = "left_loop"
  /\ \E bp \in WarpNeighbours(fn_call.left_size4x4) \ {NoParameters} :
       fn_result' = WarpLeftIteration(fn_call, fn_result, bp)
  /\ UNCHANGED fn_call
  /\ UNCHANGED <<decoder_vars, pf_vars>>

\* if (top_left) AddSample(block, -1, -1, ...);
\* if (top_right && block.size <= kBlock64x64)
\*   AddSample(block, -1, block.width4x4, ...);
\* if (*num_warp_samples == 0 && *num_samples_scanned > 0)
\*   *num_warp_samples = 1;
FindWarpSamplesCorners ==
  /\ fn_call.function = "FindWarpSamples"
  /\ fn_result.at = "top_left"
  /\ \E bp_left \in WarpNeighbours(fn_call.top_size4x4),
        bp_right \in WarpNeighbours(fn_call.top_size4x4) :
       LET after_left ==
             IF fn_result.top_left
               THEN AddSample(fn_call, fn_result, -1, -1, bp_left)
               ELSE fn_result
           after_right ==
             IF after_left.top_right
                  /\ Max(fn_call.width4x4, fn_call.height4x4) <= 16
               THEN AddSample(fn_call, after_left, -1, fn_call.width4x4,
                              bp_right)
               ELSE after_left
       IN  fn_result' =
             [after_right EXCEPT
                !.num_warp_samples =
                  IF after_right.num_warp_samples = 0
                       /\ after_right.num_samples_scanned > 0
                    THEN 1 ELSE @,
                !.at = "end", !.done = TRUE]
  /\ UNCHANGED fn_call
  /\ UNCHANGED <<decoder_vars, pf_vars>>

NextFindWarpSamples ==
  \/ FindWarpSamplesTop
  \/ FindWarpSamplesTopLoop
  \/ FindWarpSamplesLeft
  \/ FindWarpSamplesLeftLoop
  \/ FindWarpSamplesCorners

SpecFindWarpSamples == InitFindWarpSamples /\ [][NextFindWarpSamples]_vars

\* ---------------------------------------------- deblock edge information
\* The edge-info functions along the direction of filtering: position4x4 is
\* the row of a horizontal edge or the column of a vertical one, as the
\* caller passes it, and bp, bp_prev are the block parameters on the two
\* sides of the edge.
MaxEdgePosition == 5
EdgeTransformSizes ==
  {"kTransformSize4x4", "kTransformSize4x8", "kTransformSize8x4"}
kTransformWidth(transform_size) ==
  IF transform_size = "kTransformSize8x4" THEN 8 ELSE 4
kTransformHeight(transform_size) ==
  IF transform_size = "kTransformSize4x8" THEN 8 ELSE 4

\* kDeblockFilterLevelIndex[plane][type]: the vertical and the horizontal
\* level of luma, then the levels of U and V.
kDeblockFilterLevelIndex(plane, type) ==
  IF plane = "kPlaneY"
    THEN (IF type = "kLoopFilterTypeVertical" THEN 0 ELSE 1)
  ELSE IF plane = "kPlaneU" THEN 2 ELSE 3

\* 1 << subsampling.
RECURSIVE PowerOfTwo(_)
PowerOfTwo(n) == IF n = 0 THEN 1 ELSE 2 * PowerOfTwo(n - 1)

\* Subsampled UV samples correspond to the right/bottom position of Y
\* samples.
GetDeblockPosition(position4x4, subsampling) ==
  BitOr(position4x4, subsampling)

\* kBlockHeightPixels[kPlaneResidualSize[bp->size][ss_x][ss_y]] (and the
\* width likewise) for a block of size4x4 units along the direction.
PlaneResidualPixels(size4x4, subsampling) ==
  Max(4, (4 * size4x4) \div PowerOfTwo(subsampling))

\* SkipFilter of deblock.cc: bp == bp_prev compares the pointers, which are
\* equal for two positions of one block.
SkipFilterAnyBlock(bp, bp_prev) == bp.skip /\ bp.is_inter
SkipFilter(bp, bp_prev) == bp.skip /\ bp.is_inter /\ bp.id = bp_prev.id

\* What an edge-info function hands back; level and filter_length are -1
\* where the function returns without writing them.
EdgeInfo(need_filter, level, step, filter_length) ==
  [need_filter |-> need_filter, level |-> level, step |-> step,
   filter_length |-> filter_length]

\* PostFilter::GetHorizontalDeblockFilterEdgeInfo (luma).
GetHorizontalDeblockFilterEdgeInfo(call) ==
  LET row4x4 == call.position4x4
      step == kTransformHeight(call.inter_transform_sizes_[row4x4])
      level_this == call.bp.deblock_filter_level[1]
      row4x4_prev == row4x4 - 1
      level_prev == call.bp_prev.deblock_filter_level[1]
      level == IF level_this = 0 THEN level_prev ELSE level_this
      step_prev == kTransformHeight(call.inter_transform_sizes_[row4x4_prev])
  IN  IF row4x4 = 0 THEN EdgeInfo(FALSE, -1, step, -1)
      ELSE IF level_this = 0 /\ level_prev = 0
        THEN EdgeInfo(FALSE, level_this, step, -1)
      ELSE IF SkipFilter(call.bp, call.bp_prev)
        THEN EdgeInfo(FALSE, level, step, -1)
      ELSE EdgeInfo(TRUE, level, step, Min(step, step_prev))

\* PostFilter::GetVerticalDeblockFilterEdgeInfo (luma).
GetVerticalDeblockFilterEdgeInfo(call) ==
  LET column4x4 == call.position4x4
      step == kTransformWidth(call.inter_transform_sizes_[column4x4])
      filter_id == 0
      level_this == call.bp.deblock_filter_level[filter_id]
      column4x4_prev == column4x4 - 1
      level_prev == call.bp_prev.deblock_filter_level[filter_id]
      level == IF level_this = 0 THEN level_prev ELSE level_this
      step_prev ==
        kTransformWidth(call.inter_transform_sizes_[column4x4_prev])
  IN  IF column4x4 = 0 THEN EdgeInfo(FALSE, -1, step, -1)
      ELSE IF level_this = 0 /\ level_prev = 0
        THEN EdgeInfo(FALSE, level_this, step, -1)
      ELSE IF SkipFilter(call.bp, call.bp_prev)
        THEN EdgeInfo(FALSE, level, step, -1)
      ELSE EdgeInfo(TRUE, level, step, Min(step, step_prev))

\* need_filter_u and level_u (need_filter_v and level_v) of the two UV
\* functions before SkipFilter is looked at.
EdgeLevelUV(call, plane, filter_id) ==
  LET need_filter == call.loop_filter_level[plane] # 0
      level_this == call.bp.deblock_filter_level[filter_id]
      level_prev == call.bp_prev.deblock_filter_level[filter_id]
  IN  IF ~need_filter THEN [need_filter |-> FALSE, level |-> -1]
      ELSE IF level_this # 0
        THEN [need_filter |-> TRUE, level |-> level_this]
      ELSE IF level_prev = 0
        THEN [need_filter |-> FALSE, level |-> level_this]
      ELSE [need_filter |-> TRUE, level |-> level_prev]

\* The body the two UV functions share, with the position along the
\* direction, its subsampling, the loop filter type and the dimension of a
\* transform size along the direction.
DeblockFilterEdgeInfoUV(call, type, step, step_prev) ==
  LET position4x4 == GetDeblockPosition(call.position4x4, call.subsampling)
      u == EdgeLevelUV(call, "kPlaneU",
                       kDeblockFilterLevelIndex("kPlaneU", type))
      v == EdgeLevelUV(call, "kPlaneV",
                       kDeblockFilterLevelIndex("kPlaneV", type))
      info(need_filter, level, filter_length) ==
        EdgeInfo(need_filter, level, step, filter_length)
  IN  IF position4x4 = call.subsampling
        THEN [kPlaneU |-> info(FALSE, -1, -1), kPlaneV |-> info(FALSE, -1, -1)]
      ELSE IF ~u.need_filter /\ ~v.need_filter
        THEN [kPlaneU |-> info(FALSE, u.level, -1),
              kPlaneV |-> info(FALSE, v.level, -1)]
      ELSE IF SkipFilter(call.bp, call.bp_prev)
        THEN [kPlaneU |-> info(FALSE, u.level, -1),
              kPlaneV |-> info(FALSE, v.level, -1)]
      ELSE [kPlaneU |-> info(u.need_filter, u.level, Min(step, step_prev)),
            kPlaneV |-> info(v.need_filter, v.level, Min(step, step_prev))]

\* PostFilter::GetHorizontalDeblockFilterEdgeInfoUV.
GetHorizontalDeblockFilterEdgeInfoUV(call) ==
  DeblockFilterEdgeInfoUV(call, "kLoopFilterTypeHorizontal",
                          kTransformHeight(call.bp.uv_transform_size),
                          kTransformHeight(call.bp_prev.uv_transform_size))

\* PostFilter::GetVerticalDeblockFilterEdgeInfoUV.
GetVerticalDeblockFilterEdgeInfoUV(call) ==
  DeblockFilterEdgeInfoUV(call, "kLoopFilterTypeVertical",
                          kTransformWidth(call.bp.uv_transform_size),
                          kTransformWidth(call.bp_prev.uv_transform_size))

\* template <LoopFilterType type> PostFilter::GetDeblockFilterEdgeInfo of
\* post_filter.cc.
GetDeblockFilterEdgeInfo(type, plane, call) ==
  LET subsampling == IF plane = "kPlaneY" THEN 0 ELSE call.subsampling
      position4x4 == GetDeblockPosition(call.position4x4, subsampling)
      dimension(transform_size) ==
        IF type = "kLoopFilterTypeHorizontal"
          THEN kTransformHeight(transform_size)
          ELSE kTransformWidth(transform_size)
      transform_size ==
        IF plane = "kPlaneY" THEN call.inter_transform_sizes_[position4x4]
        ELSE call.bp.uv_transform_size
      step == dimension(transform_size)
      filter_id == kDeblockFilterLevelIndex(plane, type)
      level_this == call.bp.deblock_filter_level[filter_id]
      position4x4_prev == position4x4 - PowerOfTwo(subsampling)
      level_prev == call.bp_prev.deblock_filter_level[filter_id]
      level == IF level_this = 0 THEN level_prev ELSE level_this
      prediction_masks ==
        PlaneResidualPixels(call.bp.size4x4, subsampling) - 1
      pixel_position == 4 * (position4x4 \div PowerOfTwo(subsampling))
      is_border == BitAnd(pixel_position, prediction_masks) = 0
      skip == call.bp.skip /\ call.bp.is_inter
      skip_prev == call.bp_prev.skip /\ call.bp_prev.is_inter
      transform_size_prev ==
        IF plane = "kPlaneY"
          THEN call.inter_transform_sizes_[position4x4_prev]
          ELSE call.bp_prev.uv_transform_size
      step_prev == dimension(transform_size_prev)
  IN  IF position4x4 = subsampling THEN EdgeInfo(FALSE, -1, step, -1)
      ELSE IF level_this = 0 /\ level_prev = 0
        THEN EdgeInfo(FALSE, level_this, step, -1)
      ELSE IF ~skip \/ ~skip_prev \/ is_border
        THEN EdgeInfo(TRUE, level, step, Min(step, step_prev))
      ELSE EdgeInfo(FALSE, level, step, -1)

\* Block parameters as the edge-info functions read them: the block's first
\* position along the direction stands for its address.  The levels of luma
\* and of U are one number, that of V another.
EdgeBlock(id, size4x4, skip, is_inter, level, level_v, uv_transform_size) ==
  [id |-> id, size4x4 |-> size4x4, skip |-> skip, is_inter |-> is_inter,
   deblock_filter_level |-> [filter_id \in 0..3 |->
                               IF filter_id = 3 THEN level_v ELSE level],
   uv_transform_size |-> uv_transform_size]

\* The planes an edge-info call is about.
EdgePlanes(call) ==
  IF call.luma THEN {"kPlaneY"} ELSE {"kPlaneU", "kPlaneV"}

\* The edges the functions are asked about: luma, or chroma with or without
\* subsampling; a block of 1, 2 or 4 units that holds the position and is
\* aligned to its size; the position before it, which is in the same block
\* or in another one.  The frame's level of a plane is 0 only if the
\* blocks' levels of that plane are.
InitEdgeInfo ==
  /\ DecoderOff
  /\ PostFilterOff
  /\ \E type \in {"kLoopFilterTypeVertical", "kLoopFilterTypeHorizontal"},
        luma \in BOOLEAN, subsampling \in 0..1,
        position4x4 \in 0..MaxEdgePosition, size4x4 \in {1, 2, 4},
        skips \in [1..3 -> BOOLEAN], level_this \in [1..2 -> {0, 1}],
        level_prev \in [1..2 -> {0, 2}], frame_level \in 0..1,
        transform_sizes \in [1..2 -> EdgeTransformSizes] :
       LET position == GetDeblockPosition(position4x4, subsampling)
           position_prev == position - PowerOfTwo(subsampling)
           start == AlignDown(position, size4x4)
           bp == EdgeBlock(start, size4x4, skips[1], skips[2], level_this[1],
                           level_this[2], transform_sizes[1])
           bp_prev ==
             IF position_prev >= start THEN bp
             ELSE EdgeBlock(position_prev, 1, skips[3], skips[3],
                            level_prev[1], level_prev[2], transform_sizes[2])
           levels == bp.deblock_filter_level
           levels_prev == bp_prev.deblock_filter_level
       IN  /\ luma => subsampling = 0 /\ level_this[2] = level_this[1]
                        /\ level_prev[2] = level_prev[1]
           /\ position4x4 % PowerOfTwo(subsampling) = 0
           /\ fn_call =
                [function |-> "GetDeblockFilterEdgeInfo", type |-> type,
                 luma |-> luma, subsampling |-> subsampling,
                 position4x4 |-> position4x4, bp |-> bp, bp_prev |-> bp_prev,
                 inter_transform_sizes_ |->
                   [p \in 0..(MaxEdgePosition + 1) |->
                      IF p = position THEN transform_sizes[1]
                      ELSE transform_sizes[2]],
                 loop_filter_level |->
                   [kPlaneY |-> levels[0] + levels_prev[0] + frame_level,
                    kPlaneU |-> levels[2] + levels_prev[2] + frame_level,
                    kPlaneV |-> levels[3] + levels_prev[3] + frame_level]]
  /\ fn_result = [done |-> FALSE]

\* One call of the edge-info function of deblock.cc for the plane or planes
\* and of the one of post_filter.cc for each plane.
CallEdgeInfo ==
  /\ fn_call.function = "GetDeblockFilterEdgeInfo"
  /\ ~fn_result.done
  /\ fn_result' =
       [done |-> TRUE,
        deblock |->
          IF fn_call.luma
            THEN [kPlaneY |->
                    IF fn_call.type = "kLoopFilterTypeHorizontal"
                      THEN GetHorizontalDeblockFilterEdgeInfo(fn_call)
                      ELSE GetVerticalDeblockFilterEdgeInfo(fn_call)]
          ELSE IF fn_call.type = "kLoopFilterTypeHorizontal"
            THEN GetHorizontalDeblockFilterEdgeInfoUV(fn_call)
            ELSE GetVerticalDeblockFilterEdgeInfoUV(fn_call),
        post_filter |->
          [plane \in EdgePlanes(fn_call) |->
             GetDeblockFilterEdgeInfo(fn_call.type, plane, fn_call)]]
  /\ UNCHANGED fn_call
  /\ UNCHANGED <<decoder_vars, pf_vars>>

NextEdgeInfo == CallEdgeInfo

SpecEdgeInfo == InitEdgeInfo /\ [][NextEdgeInfo]_vars

\* ------------------------------------------- loop restoration row coverage
\* The processing units of one plane, as rows [y, y + height), in the
\* order ApplyLoopRestorationThreaded and the calls of
\* ApplyLoopRestorationForOneSuperBlockRow visit them.
MaxFrameHeight == 150
kRestorationUnitHeight == 64

ProcessingUnit(y, height) == [y |-> y, height |-> height]

\* y of ApplyLoopRestorationForOneSuperBlockRow before its loop.
SuperBlockRowStartYNoLag(row4x4_start, subsampling_y) ==
  (4 * row4x4_start) \div PowerOfTwo(subsampling_y)
SuperBlockRowStartY(row4x4_start, subsampling_y) ==
  IF row4x4_start = 0 THEN 0
  ELSE (4 * row4x4_start) \div PowerOfTwo(subsampling_y)
         - kRestorationUnitOffset \div PowerOfTwo(subsampling_y)

\* The loop over sb_y of ApplyLoopRestorationForOneSuperBlockRow from sb_y
\* on, for one plane.
RECURSIVE SuperBlockRowUnits(_, _, _, _, _)
SuperBlockRowUnits(call, sb4x4, sb_y, y, expected_height) ==
  LET plane_height == RightShiftWithRounding(call.height, call.subsampling_y)
      plane_process_unit_height ==
        kRestorationUnitHeight \div PowerOfTwo(call.subsampling_y)
      current_process_unit_height == Min(expected_height, plane_height - y)
  IN  IF sb_y >= sb4x4 \/ y >= plane_height THEN << >>
      ELSE <<ProcessingUnit(y, current_process_unit_height)>>
           \o SuperBlockRowUnits(call, sb4x4, sb_y + 16,
                                 y + current_process_unit_height,
                                 plane_process_unit_height)

\* ApplyLoopRestorationForOneSuperBlockRow(row4x4_start, sb4x4), one plane.
ApplyLoopRestorationForOneSuperBlockRow(call, row4x4_start, sb4x4) ==
  LET unit_height_offset ==
        kRestorationUnitOffset \div PowerOfTwo(call.subsampling_y)
      plane_process_unit_height ==
        kRestorationUnitHeight \div PowerOfTwo(call.subsampling_y)
  IN  SuperBlockRowUnits(
        call, sb4x4, 0, SuperBlockRowStartY(row4x4_start, call.subsampling_y),
        plane_process_unit_height
          - (IF row4x4_start = 0 THEN unit_height_offset ELSE 0))

\* The loop restoration calls of ApplyFilteringForOneSuperBlockRow(row4x4,
\* sb4x4, is_last_row): for the previous superblock row, and in the last
\* call for the row itself and once more for the 8 rows of lag.
RestorationCallsOfSuperBlockRow(call, row4x4, is_last_row) ==
  LET previous_row4x4 == row4x4 - call.sb4x4
  IN  (IF previous_row4x4 >= 0
         THEN ApplyLoopRestorationForOneSuperBlockRow(call, previous_row4x4,
                                                      call.sb4x4)
         ELSE << >>)
      \o (IF is_last_row
            THEN ApplyLoopRestorationForOneSuperBlockRow(call, row4x4,
                                                         call.sb4x4)
                 \o ApplyLoopRestorationForOneSuperBlockRow(
                      call, row4x4 + call.sb4x4, 16)
            ELSE << >>)

\* The row loop of one window of ApplyLoopRestorationThreaded from `row` on.
RECURSIVE RestorationWindowUnits(_, _, _, _)
RestorationWindowUnits(call, y, row, actual_window_height) ==
  LET plane_height == RightShiftWithRounding(call.height, call.subsampling_y)
      unit_height_offset ==
        kRestorationUnitOffset \div PowerOfTwo(call.subsampling_y)
      unit_y == y + row
      expected_height ==
        kRestorationUnitHeight \div PowerOfTwo(call.subsampling_y)
          - (IF unit_y = 0 THEN unit_height_offset ELSE 0)
      current_process_unit_height == Min(expected_height, plane_height - unit_y)
  IN  IF row >= actual_window_height THEN << >>
      ELSE <<ProcessingUnit(unit_y, current_process_unit_height)>>
           \o RestorationWindowUnits(call, y, row + current_process_unit_height,
                                     actual_window_height)

\* frame_header.rows4x4 of a frame of the given height.
Rows4x4(height) == 2 * ((height + 7) \div 8)

\* A plane of a frame of 1 to MaxFrameHeight rows, with or without vertical
\* subsampling, restored window by window or superblock row by superblock
\* row.
InitLoopRestorationRows ==
  /\ DecoderOff
  /\ PostFilterOff
  /\ \E height \in 1..MaxFrameHeight, subsampling_y \in 0..1,
        threaded \in BOOLEAN, size \in 1..2 :
       fn_call = [function |-> "ApplyLoopRestoration", height |-> height,
                  subsampling_y |-> subsampling_y, threaded |-> threaded,
                  sb4x4 |-> 16 * size,
                  window_buffer_height_ |-> kRestorationUnitHeight * size]
  /\ fn_result = [done |-> FALSE, y |-> 0, row4x4 |-> 0, units |-> << >>]

\* One pass of the loop over y of ApplyLoopRestorationThreaded: the units of
\* the window at y, and the step to the next window.
LoopRestorationWindow ==
  /\ fn_call.function = "ApplyLoopRestoration"
  /\ fn_call.threaded
  /\ ~fn_result.done
  /\ LET plane_height ==
           RightShiftWithRounding(fn_call.height, fn_call.subsampling_y)
         unit_height_offset ==
           kRestorationUnitOffset \div PowerOfTwo(fn_call.subsampling_y)
         y == fn_result.y
         actual_window_height ==
           Min(fn_call.window_buffer_height_
                 - (IF y = 0 THEN unit_height_offset ELSE 0),
               plane_height - y)
         next_y == (IF y = 0 THEN y - unit_height_offset ELSE y)
                     + fn_call.window_buffer_height_
     IN  fn_result' =
           [fn_result EXCEPT
              !.units = @ \o RestorationWindowUnits(fn_call, y, 0,
                                                    actual_window_height),
              !.y = next_y,
              !.done = next_y >= plane_height]
  /\ UNCHANGED fn_call
  /\ UNCHANGED <<decoder_vars, pf_vars>>

\* One call of ApplyFilteringForOneSuperBlockRow, for the next superblock
\* row: its loop restoration calls.
LoopRestorationSuperBlockRow ==
  /\ fn_call.function = "ApplyLoopRestoration"
  /\ ~fn_call.threaded
  /\ ~fn_result.done
  /\ LET row4x4 == fn_result.row4x4
         is_last_row == row4x4 + fn_call.sb4x4 >= Rows4x4(fn_call.height)
     IN  fn_result' =
           [fn_result EXCEPT
              !.units = @ \o RestorationCallsOfSuperBlockRow(fn_call, row4x4,
                                                             is_last_row),
              !.row4x4 = row4x4 + fn_call.sb4x4,
              !.done = is_last_row]
  /\ UNCHANGED fn_call
  /\ UNCHANGED <<decoder_vars, pf_vars>>

NextLoopRestorationRows ==
  \/ LoopRestorationWindow
  \/ LoopRestorationSuperBlockRow

SpecLoopRestorationRows ==
  InitLoopRestorationRows /\ [][NextLoopRestorationRows]_vars

\* ------------------------------------------- rows written by each stage
kRestorationBorder == 4
\* frame_buffer_.top_border(plane) and bottom_border(plane).
kBorderPixels == 64
\* The rows on each side of a horizontal edge that a loop filter may touch:
\* half of the longest filter of the plane (16 for Y, 6 for U and V).
DeblockFilterReach(plane) == IF plane = 1 THEN 8 ELSE 3

\* The rows by which a buffer of PlaneBuffers is offset from
\* frame_buffer_.data(plane) (vertical_shift of the constructor).
VerticalShift(buffer) == buffer[1] * kRestorationBorder + buffer[2] * kCdefBorder

\* ExtendFrame(start, width, height, stride, left, right, top, bottom) for the
\* rows row .. row + num_rows - 1: the rows whose borders it writes, with the
\* `top` rows above and the `bottom` rows below.
ExtendFrameRows(row, num_rows, top, bottom) ==
  (row - top)..(row + num_rows - 1 + bottom)

\* ExtendBordersForReferenceFrame(row4x4, sb4x4): the rows of
\* frame_buffer_.data(plane) it writes.
ExtendBordersRows(cfg, plane, row4x4, sb4x4) ==
  IF ~cfg.refresh \/ ~cfg.in_loop THEN {}
  ELSE
    LET subsampling_y == SubsamplingY(cfg, plane)
        loop_restoration_row_offset ==
          IF DoRestorationOf(cfg) THEN (IF row4x4 = 0 THEN 0 ELSE 8) ELSE 0
        loop_restoration_height_offset ==
          IF DoRestorationOf(cfg) /\ row4x4 = 0 THEN 8 ELSE 0
        plane_height == RightShiftWithRounding(cfg.height, subsampling_y)
        row == (4 * row4x4 - loop_restoration_row_offset)
                 \div 2 ^ subsampling_y
        num_rows ==
          Min(RightShiftWithRounding(
                4 * sb4x4 - loop_restoration_height_offset, subsampling_y),
              plane_height - row)
    IN IF row >= plane_height THEN {}
       ELSE ExtendFrameRows(row, num_rows,
                            IF row = 0 THEN kBorderPixels ELSE 0,
                            IF row + num_rows = plane_height
                              THEN kBorderPixels ELSE 0)

\* ExtendBordersForReferenceFrame(): the borders of the whole plane.
ExtendFrameBoundaryRows(cfg, plane) ==
  IF ~cfg.refresh THEN {}
  ELSE ExtendFrameRows(0, RightShiftWithRounding(cfg.height,
                                                 SubsamplingY(cfg, plane)),
                       kBorderPixels, kBorderPixels)

\* ApplyDeblockFilterForOneSuperBlockRow(row4x4_start, sb4x4): the rows of
\* source_buffer_[plane] the vertical and horizontal filters touch; the edge
\* at the top of the frame is not filtered.
DeblockRows(cfg, plane, row4x4_start, sb4x4) ==
  LET subsampling_y == SubsamplingY(cfg, plane)
      plane_height == RightShiftWithRounding(cfg.height, subsampling_y)
      first == (4 * row4x4_start) \div 2 ^ subsampling_y
      last == Min((4 * Min(row4x4_start + sb4x4, cfg.rows4x4))
                    \div 2 ^ subsampling_y, plane_height) - 1
  IN IF row4x4_start >= cfg.rows4x4 THEN {}
     ELSE (IF row4x4_start = 0 THEN first
           ELSE first - DeblockFilterReach(plane))..last

\* ApplyCdefForOneSuperBlockRow and ApplySuperResForOneSuperBlockRow: the
\* rows of cdef_buffer_[plane] they write.
CdefRows(cfg, plane, row4x4_start, sb4x4) ==
  LET subsampling_y == SubsamplingY(cfg, plane)
      num_rows4x4 == Min(sb4x4, cfg.rows4x4 - row4x4_start)
      start_y == (4 * row4x4_start) \div 2 ^ subsampling_y
  IN start_y..(start_y + (4 * num_rows4x4) \div 2 ^ subsampling_y - 1)

\* CopyBorderForRestoration(row4x4, sb4x4): the rows of cdef_buffer_[plane]
\* whose borders it writes.
CopyBorderRows(cfg, plane, row4x4, sb4x4) ==
  LET subsampling_y == SubsamplingY(cfg, plane)
      row == (4 * row4x4) \div 2 ^ subsampling_y
      plane_height ==
        RightShiftWithRounding(Min(4 * sb4x4, cfg.height - 4 * row4x4),
                               subsampling_y)
      copy_bottom == row4x4 + sb4x4 >= cfg.rows4x4
  IN ExtendFrameRows(row, plane_height,
                     IF row = 0 THEN kRestorationBorder ELSE 0,
                     IF copy_bottom THEN kRestorationBorder ELSE 0)

\* ApplyLoopRestorationForOneSuperBlockRow(row4x4_start, sb4x4): the rows of
\* loop_restoration_buffer_[plane] it writes, one processing unit for every
\* 16 rows4x4.
LoopRestorationRows(cfg, plane, row4x4_start, sb4x4) ==
  IF cfg.lr_type[plane] = kLoopRestorationTypeNone THEN {}
  ELSE
    LET subsampling_y == SubsamplingY(cfg, plane)
        unit_height_offset == kRestorationUnitOffset \div 2 ^ subsampling_y
        plane_height == RightShiftWithRounding(cfg.height, subsampling_y)
        UnitRows(sb_y) ==
          LET row4x4 == row4x4_start + sb_y
              y == (4 * row4x4 - (IF row4x4 = 0 THEN 0 ELSE 8))
                     \div 2 ^ subsampling_y
              expected_height ==
                kRestorationProcessingUnitSize \div 2 ^ subsampling_y
                  + (IF y = 0 THEN -unit_height_offset ELSE 0)
              current_process_unit_height ==
                IF y + expected_height <= plane_height THEN expected_height
                ELSE plane_height - y
          IN IF y >= plane_height THEN {}
             ELSE y..(y + current_process_unit_height - 1)
    IN UNION {UnitRows(16 * k) : k \in 0..((sb4x4 - 1) \div 16)}

\* The rows of frame_buffer_.data(plane) an invocation of
\* ApplyFilteringForOneSuperBlockRow writes: the rows of the buffer the stage
\* works on, moved by the buffer's offset.  SetupDeblockBuffer writes
\* deblock_buffer_ only.
RowsWritten(cfg, plane, invocation) ==
  LET buffers == PlaneBuffers(cfg, plane)
      function == invocation.function
      row4x4 == invocation.row4x4
      sb4x4 == invocation.sb4x4
      Moved(rows, buffer) == {row + VerticalShift(buffer) : row \in rows}
  IN CASE function = "ApplyDeblockFilter" ->
            Moved(DeblockRows(cfg, plane, row4x4, sb4x4),
                  buffers.source_buffer_)
       [] function = "SetupDeblockBuffer" -> {}
       [] function \in {"ApplyCdef", "ApplySuperRes"} ->
            Moved(CdefRows(cfg, plane, row4x4, sb4x4), buffers.cdef_buffer_)
       [] function = "CopyBorderForRestoration" ->
            Moved(CopyBorderRows(cfg, plane, row4x4, sb4x4),
                  buffers.cdef_buffer_)
       [] function = "ApplyLoopRestoration" ->
            Moved(LoopRestorationRows(cfg, plane, row4x4, sb4x4),
                  buffers.loop_restoration_buffer_)
       [] function = "ExtendBordersForReferenceFrame" ->
            IF sb4x4 = 0 THEN ExtendFrameBoundaryRows(cfg, plane)
            ELSE ExtendBordersRows(cfg, plane, row4x4, sb4x4)

\* ================================================================ claims
\* Every frame of the temporal unit has been decoded by its frame job.
FullyDecoded(unit) ==
  \A j \in 1..Len(unit.frames) : unit.frames[j].job = "done"

\* The temporal unit holds a frame that is shown.
Displayable(unit) ==
  \E j \in 1..Len(unit.frames) : unit.frames[j].show

\* The step is (the start of) a DequeueFrame call.
DequeueCalled ==
  app_pc = "idle" /\ ret'.op = "dequeue" /\ (ret' # ret \/ app_pc' # app_pc)
\* The step takes DequeueFrame past its wait for the head unit, at once or
\* after blocking.
DequeuePastWait ==
  \/ DequeueCalled /\ app_pc' # "dequeue_wait"
  \/ app_pc = "dequeue_woken" /\ app_pc' \notin {"dequeue_wait", "dequeue_woken"}

\* The positions in log of the entries of temporal unit id, in order.
RECURSIVE PositionsOf(_, _)
PositionsOf(log, id) ==
  IF log = << >> THEN << >>
  ELSE IF Head(log).unit = id
    THEN <<Head(log).position>> \o PositionsOf(Tail(log), id)
  ELSE PositionsOf(Tail(log), id)

\* ---------------------------------------------------------------- C1
\* C1: successive successful DequeueFrame calls hand out the temporal units in
\* enqueue order 1, 2, 3, ...; the queue holds the units in enqueue order; a
\* unit leaves the queue only from the head and only once every one of its
\* frames has been decoded, whatever the order in which the workers finish.
C1_OrderPreservingDequeue ==
  [][ /\ \A i \in 1..Len(temporal_units_) :
           temporal_units_[i].id = next_id - Len(temporal_units_) + i
      /\ (out_log' # out_log) =>
           /\ temporal_units_ # << >>
           /\ FullyDecoded(Head(temporal_units_))
           /\ Len(out_log') = Len(out_log) + 1
           /\ SubSeq(out_log', 1, Len(out_log)) = out_log
           /\ out_log'[Len(out_log')].unit = Head(temporal_units_).id
           /\ out_log'[Len(out_log')].unit \in
                IF out_log = << >> THEN {1}
                ELSE {out_log[Len(out_log)].unit, out_log[Len(out_log)].unit + 1}
      /\ (Len(temporal_units_') < Len(temporal_units_)) =>
           /\ temporal_units_' = Tail(temporal_units_)
           /\ FullyDecoded(Head(temporal_units_))
           /\ out_log' # out_log
    ]_vars

\* A later unit finished decoding before an earlier one, and the two were
\* handed out in enqueue order.
C1_Witness ==
  \E i, j \in 1..Len(decode_log), a, b \in 1..Len(out_log) :
    /\ i < j
    /\ decode_log[i].unit > decode_log[j].unit
    /\ a < b
    /\ out_log[a].unit = decode_log[j].unit
    /\ out_log[b].unit = decode_log[i].unit

\* ---------------------------------------------------------------- C2
\* C2: once failure_status_ holds a fatal status, every EnqueueFrame and
\* DequeueFrame call made from then on returns a fatal status, pushes and
\* removes no temporal unit, releases no input buffer and hands out no frame.
C2_StickyFailure ==
  [][ (failure_status_ # kStatusOk /\ app_pc = "idle") =>
        /\ out_log' = out_log
        /\ released' = released
        /\ next_id' = next_id
        /\ Len(temporal_units_') = Len(temporal_units_)
        /\ (ret' # ret \/ app_pc' # app_pc) =>
             /\ ret'.status \in FatalStatus
             /\ ret'.out = 0
             /\ app_pc' \in {"idle", "signal"}
    ]_vars

\* A DequeueFrame call made after the failure has returned the failure although
\* the head unit was decoded and had a frame to hand out.
C2_Witness ==
  /\ failure_status_ # kStatusOk
  /\ app_pc = "idle"
  /\ ret.op = "dequeue"
  /\ ret.began_failed
  /\ ret.status = failure_status_
  /\ temporal_units_ # << >>
  /\ Head(temporal_units_).decoded
  /\ Head(temporal_units_).output_layer_count > 0

\* ---------------------------------------------------------------- C3
\* C3: failure_status_ is kStatusOk or a fatal status; once fatal it never
\* changes again; a call that returns kStatusOk, kStatusTryAgain or
\* kStatusNothingToDequeue leaves it alone; SignalFailure records its status
\* only if none is recorded yet and returns the status it was given.
C3_FirstErrorWins ==
  [][ /\ failure_status_ \in FatalStatus \cup {kStatusOk}
      /\ failure_status_' \in FatalStatus \cup {kStatusOk}
      /\ (failure_status_ # kStatusOk) => (failure_status_' = failure_status_)
      /\ ((ret' # ret \/ app_pc' # app_pc) /\ app_pc' \in {"idle", "signal"}
            /\ ret'.status \notin FatalStatus) =>
           (failure_status_' = failure_status_)
      /\ (app_pc # "signal" /\ app_pc' = "signal") =>
           /\ ret'.status \in FatalStatus
           /\ (failure_status_ = kStatusOk) => (failure_status_' = ret'.status)
    ]_vars

\* The parser failed after a worker had already recorded a failure: the call
\* got the parser's status back, the recorded failure is still the worker's.
C3_Witness ==
  /\ failure_status_ = "kStatusUnknownError"
  /\ ret.op = "enqueue"
  /\ ~ret.began_failed
  /\ ret.status \in FatalStatus
  /\ ret.status # failure_status_

C7_NoDisplayableFrame ==
  [][ (DequeuePastWait /\ failure_status_ = kStatusOk
         /\ temporal_units_ # << >>
         /\ FullyDecoded(Head(temporal_units_))
         /\ ~Displayable(Head(temporal_units_))) =>
        /\ ret'.status = kStatusOk
        /\ ret'.out = 0
        /\ output_frame_' = 0
        /\ app_pc' = "idle"
        /\ temporal_units_' = Tail(temporal_units_)
        /\ out_log' = Append(out_log, [unit |-> Head(temporal_units_).id,
                                       position |-> -1])
    ]_vars

\* A unit whose one frame was decoded but is not shown has been dequeued with
\* a null buffer.
C7_Witness ==
  \E i \in 1..Len(out_log), j \in 1..Len(decode_log) :
    /\ out_log[i].position = -1
    /\ decode_log[j].unit = out_log[i].unit
    /\ ret.op = "dequeue"
    /\ ret.status = kStatusOk
    /\ ret.out = 0
    /\ ret.unit = out_log[i].unit

Holders(b) ==
  (IF state_ = b THEN 1 ELSE 0)
  + (IF output_frame_ = b THEN 1 ELSE 0)
  + Cardinality(UNION {{<<u, j>> : j \in {f \in 1..Len(temporal_units_[u].frames) :
                          temporal_units_[u].frames[f].frame = b}} :
                       u \in 1..Len(temporal_units_)})
  + Cardinality(UNION {{<<u, j>> : j \in {f \in 1..Len(temporal_units_[u].frames) :
                          temporal_units_[u].frames[f].state = b}} :
                       u \in 1..Len(temporal_units_)})
  + Cardinality(UNION {{<<u, l>> : l \in {a \in 1..Len(temporal_units_[u].output_layers) :
                          temporal_units_[u].output_layers[a].frame = b}} :
                       u \in 1..Len(temporal_units_)})

\* C10: a buffer's reference count equals the number of pointers that hold it
\* (reference slot, EncodedFrames, output layers, output_frame_), so a buffer
\* that is held is never free for GetFreeBuffer, and a buffer is free exactly
\* when nothing holds it.
C10_BufferLifetime ==
  \A b \in Buffers :
    /\ refcount[b] = Holders(b)
    /\ (Holders(b) > 0) => (GetFreeBuffer(refcount) # b)

\* The buffer handed out by DequeueFrame is also in the reference slot and in
\* the state snapshot of a frame that a worker is decoding, and GetFreeBuffer
\* offers another buffer.
C10_Witness ==
  /\ output_frame_ # 0
  /\ state_ = output_frame_
  /\ refcount[output_frame_] = 3
  /\ \E k \in JobsIn(temporal_units_, "running") :
       temporal_units_[k[1]].frames[k[2]].state = output_frame_
  /\ GetFreeBuffer(refcount) \notin {0, output_frame_}

\* --------------------------------------------------------------- C11
\* The frame jobs that a worker is decoding.
InFlight == JobsIn(temporal_units_, "running")

\* C11: once failure_status_ is set, no worker takes up a frame (no job
\* becomes running, no frame is recorded as decoded), every worker that is
\* decoding a frame eventually gives up, and a SignalFailure that waits for
\* the workers eventually returns.
C11_CooperativeAbort ==
  /\ [][ (failure_status_ # kStatusOk) =>
           /\ JobsIn(temporal_units_', "running") \subseteq InFlight
           /\ JobsIn(temporal_units_', "done") =
                JobsIn(temporal_units_, "done")
           /\ decode_log' = decode_log
       ]_vars
  /\ (failure_status_ # kStatusOk) ~> (InFlight = {})
  /\ (app_pc = "signal") ~> (app_pc = "idle")

\* The parser has failed and SignalFailure waits while a worker is still
\* decoding a frame of an earlier temporal unit.
C11_Witness ==
  /\ app_pc = "signal"
  /\ ret.op = "enqueue"
  /\ failure_status_ = "kStatusBitstreamError"
  /\ InFlight # {}

\* --------------------------------------------------------------- C12
\* The application thread is inside a blocking DequeueFrame.
DequeueBlocked == app_pc \in {"dequeue_wait", "dequeue_woken"}

\* What the blocked DequeueFrame waits for.
DequeueReady ==
  failure_status_ # kStatusOk \/ Head(temporal_units_).decoded

\* C12: a blocked DequeueFrame never sleeps on decoded_condvar_ while the head
\* unit is decoded or a failure is recorded (the notification that came with
\* the update has woken it), and from then on it eventually returns.
C12_BlockingDequeueReturns ==
  /\ [](app_pc = "dequeue_wait" => ~DequeueReady)
  /\ (DequeueBlocked /\ DequeueReady) ~> ~DequeueBlocked

\* The worker that finished the head unit has woken the blocked DequeueFrame,
\* after an earlier notification for a later unit had sent it back to wait.
C12_Witness ==
  /\ app_pc = "dequeue_woken"
  /\ failure_status_ = kStatusOk
  /\ Head(temporal_units_).decoded
  /\ Len(decode_log) >= 2
  /\ decode_log[1].unit # Head(temporal_units_).id

\* --------------------------------------------------------------- C13
\* C13: at most GetMaxAllowedFrames() frames are being decoded at a time, each
\* by a thread of the frame thread pool of its own; a frame that is not being
\* decoded has no thread.
C13_FramesInFlight ==
  /\ Cardinality(InFlight) <= GetMaxAllowedFrames(num_threads)
  /\ \A k \in InFlight :
       temporal_units_[k[1]].frames[k[2]].worker \in 1..num_threads
  /\ \A k1, k2 \in InFlight :
       (k1 # k2) => temporal_units_[k1[1]].frames[k1[2]].worker #
                    temporal_units_[k2[1]].frames[k2[2]].worker
  /\ \A u \in 1..Len(temporal_units_) :
       \A j \in 1..Len(temporal_units_[u].frames) :
         (temporal_units_[u].frames[j].job # "running") =>
           temporal_units_[u].frames[j].worker = 0

\* Every thread of the pool decodes a frame and a further frame waits for a
\* thread.
C13_Witness ==
  /\ Cardinality(InFlight) = GetMaxAllowedFrames(num_threads)
  /\ num_threads >= 1
  /\ JobsIn(temporal_units_, "queued") # {}

\* ---------------------------------------------------------------------------
\* The thread-pool jobs of the stage whose mask bit is `stage`.
StageJobs(stage) ==
  {j \in 1..Len(pf_jobs) : StageOf(pf_jobs[j].function) = stage}
\* The stage the current thread is in (5 once ApplyFilteringThreaded is over).
CurrentStage ==
  IF pf_pc.at = "done" THEN 5
  ELSE StageOf(ApplyFilteringThreaded(pf_cfg)[pf_pc.section].function)
\* Whether ApplyFilteringThreaded has to call the stage at all.
StageEnabled(cfg, stage) ==
  CASE stage = 0 -> DoDeblock(cfg)
    [] stage = 1 -> DoCdef(cfg)
    [] stage = 2 -> DoSuperRes(cfg)
    [] stage = 3 -> DoRestorationOf(cfg)
    [] stage = 4 -> TRUE

\* C14: ApplyFilteringThreaded runs the stages in the order deblock, CDEF,
\* SuperRes, loop restoration, border extension: the stages are entered in
\* that order, every enabled stage is entered, no thread-pool job of a stage
\* has started while a job of an earlier stage is unfinished, and the current
\* thread is never in a stage while a job of an earlier stage is unfinished.
C14_StageOrder ==
  pf_cfg.mode = "threaded" =>
    /\ \A i, j \in 1..Len(pf_log) :
         i < j => StageOf(pf_log[i].function) <= StageOf(pf_log[j].function)
    /\ \A j, k \in 1..Len(pf_jobs) :
         /\ pf_jobs[j].status # "queued"
         /\ StageOf(pf_jobs[k].function) < StageOf(pf_jobs[j].function)
         => pf_jobs[k].status = "done"
    /\ \A k \in 1..Len(pf_jobs) :
         StageOf(pf_jobs[k].function) < CurrentStage
           => pf_jobs[k].status = "done"
    /\ pf_pc.at = "done" =>
         \A stage \in 0..4 :
           StageEnabled(pf_cfg, stage)
             => \E i \in 1..Len(pf_log) : StageOf(pf_log[i].function) = stage
\* All four filters enabled, with thread-pool jobs of each, and a loop
\* restoration job running on the pool.
C14_Witness ==
  /\ pf_cfg.mode = "threaded"
  /\ pf_cfg.do_post_filter_mask = 15
  /\ \A stage \in 0..3 : StageJobs(stage) # {}
  /\ \E j \in StageJobs(3) : pf_jobs[j].status = "running"
  /\ \E j \in StageJobs(3) : pf_jobs[j].status = "queued"

\* ---------------------------------------------------------------------------
\* The functions that filter a superblock row after it has been deblocked.
LaggingFunctions ==
  {"SetupDeblockBuffer", "ApplyCdef", "ApplySuperRes",
   "CopyBorderForRestoration", "ApplyLoopRestoration"}
\* The log entries of the lagging functions for whole superblock rows (the
\* extra 16-row loop restoration call after the last row is not one).
LaggingEntries ==
  {i \in 1..Len(pf_log) :
     /\ pf_log[i].function \in LaggingFunctions
     /\ pf_log[i].row4x4 < pf_cfg.rows4x4}
IsLastRow(row4x4) == row4x4 + pf_cfg.sb4x4 >= pf_cfg.rows4x4
\* The superblock rows of the frame.
SuperBlockRows ==
  {r \in 0..(pf_cfg.rows4x4 - 1) : r % pf_cfg.sb4x4 = 0}
\* Whether ApplyFilteringForOneSuperBlockRow has to call the function at all.
FunctionEnabled(cfg, function) ==
  IF function = "SetupDeblockBuffer"
    THEN DoCdef(cfg) /\ DoRestorationOf(cfg)
    ELSE StageEnabled(cfg, StageOf(function))

\* C15: in ApplyFilteringForOneSuperBlockRow, CDEF, SuperRes and loop
\* restoration of a superblock row are called in the call for the next row N,
\* after the deblocking of row N and before the border extension of that
\* call; only in the is_last_row call are they also called for row N itself,
\* after those of row N-1; so every enabled filter is applied to every
\* superblock row exactly once.
C15_OneRowLag ==
  pf_cfg.mode = "superblock_row" =>
    /\ \A i \in LaggingEntries :
         LET e == pf_log[i] IN
         /\ e.row4x4 = e.call - pf_cfg.sb4x4
              \/ (e.row4x4 = e.call /\ IsLastRow(e.call))
         /\ DoDeblock(pf_cfg) =>
              \E d \in 1..(i - 1) :
                /\ pf_log[d].function = "ApplyDeblockFilter"
                /\ pf_log[d].row4x4 = e.call
         /\ \E x \in (i + 1)..Len(pf_log) :
              /\ pf_log[x].function = "ExtendBordersForReferenceFrame"
              /\ pf_log[x].call = e.call
              /\ pf_log[x].row4x4 = e.row4x4
         /\ \A j \in LaggingEntries :
              pf_log[j].call = e.call /\ pf_log[j].row4x4 < e.row4x4 => j < i
    /\ pf_pc.at = "done" =>
         \A r \in SuperBlockRows, function \in LaggingFunctions :
           Cardinality({i \in LaggingEntries :
                          /\ pf_log[i].function = function
                          /\ pf_log[i].row4x4 = r})
             = IF FunctionEnabled(pf_cfg, function) THEN 1 ELSE 0
\* The is_last_row call of a frame of several superblock rows, with every
\* filter enabled: CDEF has run for row N-1 and for row N in the same call.
C15_Witness ==
  /\ pf_cfg.mode = "superblock_row"
  /\ pf_cfg.do_post_filter_mask = 15
  /\ DoRestorationOf(pf_cfg)
  /\ pf_pc.at = "done"
  /\ \E i, j \in LaggingEntries :
       /\ pf_log[i].function = "ApplyCdef"
       /\ pf_log[j].function = "ApplyLoopRestoration"
       /\ pf_log[i].call = pf_log[j].call
       /\ pf_log[i].row4x4 = pf_log[i].call
       /\ pf_log[j].row4x4 = pf_log[j].call - pf_cfg.sb4x4
       /\ pf_log[j].row4x4 >= 0

\* ---------------------------------------------------------------------------
\* C16: a stage whose bit of do_post_filter_mask is clear is never invoked, in
\* the threaded path or in the superblock-row path, neither on the current
\* thread nor as a thread-pool job, and its output buffer is its input buffer;
\* DoRestoration() is false whenever bit 3 is clear, whatever the restoration
\* types of the planes are.
C16_MaskedStageSkipped ==
  /\ \A i \in 1..Len(pf_log) :
       StageOf(pf_log[i].function) < 4
         => MaskBit(pf_cfg.do_post_filter_mask, StageOf(pf_log[i].function))
  /\ \A j \in 1..Len(pf_jobs) :
       StageOf(pf_jobs[j].function) < 4
         => MaskBit(pf_cfg.do_post_filter_mask, StageOf(pf_jobs[j].function))
  /\ ~MaskBit(pf_cfg.do_post_filter_mask, 3) => ~DoRestorationOf(pf_cfg)
  /\ \A plane \in 1..pf_cfg.planes :
       LET buffers == PlaneBuffers(pf_cfg, plane) IN
       /\ ~MaskBit(pf_cfg.do_post_filter_mask, 1)
            => buffers.source_buffer_ = buffers.cdef_buffer_
       /\ ~MaskBit(pf_cfg.do_post_filter_mask, 3)
            => buffers.cdef_buffer_ = buffers.loop_restoration_buffer_
\* A finished frame with the deblocking and restoration bits clear although
\* the Y plane has a restoration type: CDEF and SuperRes have been invoked.
C16_Witness ==
  /\ pf_pc.at = "done"
  /\ pf_cfg.do_post_filter_mask = 6
  /\ pf_cfg.lr_type[1] # kLoopRestorationTypeNone
  /\ \E i \in 1..Len(pf_log) : pf_log[i].function = "ApplyCdef"
  /\ \E i \in 1..Len(pf_log) : pf_log[i].function = "ApplySuperRes"

\* ---------------------------------------------------------------------------
\* The number of entries of stack[1..size] equal to value.
CountIn(stack, size, value) ==
  Cardinality({i \in 1..size : stack[i] = value})
\* stack[1..size] is in non-increasing order.
NonIncreasing(stack, size) ==
  \A i \in 1..(size - 1) : stack[i] >= stack[i + 1]

\* C18: for sizes 0 to 3 SortWeightIndexStack leaves what a generic
\* descending sort of the first `size` entries leaves; for larger sizes it
\* leaves those entries as a non-increasing permutation of what they were;
\* the entries from `size` on are never touched.
C18_SortNetwork ==
  (fn_call.function = "SortWeightIndexStack" /\ fn_result.done) =>
    LET size == fn_call.size
        before == fn_call.weight_index_stack
        after == fn_result.weight_index_stack
    IN /\ size <= 3 => after = StdSort(size, before)
       /\ NonIncreasing(after, size)
       /\ \A value \in 0..MaxSortValue :
            CountIn(after, size, value) = CountIn(before, size, value)
       /\ \A i \in (size + 1)..MaxSortSize : after[i] = before[i]
\* Three entries in ascending order have been sorted: every compare-and-swap
\* of the network has swapped.
C18_Witness ==
  /\ fn_call.function = "SortWeightIndexStack"
  /\ fn_result.done
  /\ fn_call.size = 3
  /\ fn_call.weight_index_stack[1] < fn_call.weight_index_stack[2]
  /\ fn_call.weight_index_stack[2] < fn_call.weight_index_stack[3]
  /\ fn_result.weight_index_stack[1] = fn_call.weight_index_stack[3]

\* ---------------------------------------------------------------------------
\* C19: LowerMvPrecision is idempotent: for every int16_t component and each
\* precision mode, a second call leaves what the first call left (and every
\* component it leaves is an int16_t).
C19_LowerMvPrecisionIdempotent ==
  fn_call.function = "LowerMvPrecision" =>
    /\ fn_result.calls = 2 => fn_result.mv = fn_result.first
    /\ \A i \in 1..2 : fn_result.mv[i] \in Int16
\* The second call has returned for a negative odd row component that the
\* first call changed, with neither precision flag set.
C19_Witness ==
  /\ fn_call.function = "LowerMvPrecision"
  /\ fn_result.calls = 2
  /\ ~fn_call.allow_high_precision_mv
  /\ fn_call.force_integer_mv = 0
  /\ fn_call.mv[1] < 0
  /\ fn_call.mv[1] % 2 = 1
  /\ fn_result.first[1] = fn_call.mv[1] + 1

\* ---------------------------------------------------------------------------
\* C17: inside FindMvStack, whatever the scans and ExtraSearch pass on,
\* num_mv_found never exceeds kMaxRefMvStackSize, no entry of ref_mv_stack (or
\* of weight_index_stack) is written at index kMaxRefMvStackSize or above,
\* and on return nearest_mv_count and ref_mv_count are at most
\* kMaxRefMvStackSize.
C17_StackCapacity ==
  fn_call.function = "FindMvStack" =>
    /\ fn_result.num_mv_found <= kMaxRefMvStackSize
    /\ ~fn_result.out_of_bounds
    /\ fn_result.nearest_mv_count <= kMaxRefMvStackSize
    /\ fn_result.ref_mv_count <= kMaxRefMvStackSize
    /\ fn_result.done =>
         /\ fn_result.ref_mv_count = fn_result.num_mv_found
         /\ fn_result.nearest_mv_count \in 0..fn_result.ref_mv_count
\* FindMvStack has returned after candidates that were not in the full stack
\* had been turned away: MaxCandidates candidates, none of them a repeat.
C17_Witness ==
  /\ fn_call.function = "FindMvStack"
  /\ fn_result.done
  /\ fn_result.ref_mv_count = kMaxRefMvStackSize
  /\ fn_result.candidates = MaxCandidates
  /\ \A i \in 0..(kMaxRefMvStackSize - 1) :
       fn_result.weight_index_stack[i] \div 8 \in {2, 4}

\* ---------------------------------------------------------------------------
\* The block of the call in plane pixels, and the cell of cdef_block that
\* holds the pixel at row r and column c relative to the block's first pixel.
CdefBlockWidth == (4 * fn_call.block_width4x4) \div 2 ^ fn_call.subsampling
CdefBlockHeight == (4 * fn_call.block_height4x4) \div 2 ^ fn_call.subsampling
CdefUnitWidth ==
  Align(CdefBlockWidth, IF fn_call.subsampling > 0 THEN 4 ELSE 8)
CdefUnitHeight ==
  Align(CdefBlockHeight, IF fn_call.subsampling > 0 THEN 4 ELSE 8)
CdefCell(r, c) ==
  fn_result.cdef_block[(r + kCdefBorder)
                         * kRestorationProcessingUnitSizeWithBorders
                       + c + kCdefBorder]
\* The source pixel at row r and column c relative to the block's first.
CdefSource(r, c) ==
  SourcePixel(((4 * fn_call.row_64x64) \div 2 ^ fn_call.subsampling + r)
                * fn_call.src_stride
              + (4 * fn_call.column_64x64) \div 2 ^ fn_call.subsampling + c)
\* Whether the cell at (r, c) lies beyond an edge of the frame: above the
\* first unit row, left of the first unit column, right of the block of a
\* last unit column, below the block of a last unit row.
BeyondFrameEdge(r, c) ==
  \/ r < 0 /\ fn_call.row_64x64 = 0
  \/ c < 0 /\ fn_call.column_64x64 = 0
  \/ /\ c >= CdefBlockWidth
     /\ fn_call.column_64x64 + fn_call.block_width4x4 = fn_call.columns4x4
  \/ /\ r >= CdefBlockHeight
     /\ fn_call.row_64x64 + fn_call.block_height4x4 = fn_call.rows4x4

\* C20: in the bordered copy PrepareCdefBlock builds with CopyRows, every
\* padding cell beyond a frame edge (the top rows of a unit at the frame top,
\* the bottom rows at the frame bottom, the kCdefBorder left columns at the
\* frame left, the columns from block_width to unit_width + kCdefBorder at
\* the frame right) is kCdefLargeValue set by Memset and not a copy of a
\* source pixel; every other padding cell, and every cell of the block, is
\* the copy of the source pixel at its position.
C20_CdefBorderSentinel ==
  (fn_call.function = "PrepareCdefBlock" /\ fn_result.done) =>
    \A r \in (-kCdefBorder)..(CdefUnitHeight + kCdefBorder - 1),
       c \in (-kCdefBorder)..(CdefUnitWidth + kCdefBorder - 1) :
      IF BeyondFrameEdge(r, c)
        THEN CdefCell(r, c) = MemsetTo(kCdefLargeValue)
        ELSE CdefCell(r, c) = CdefSource(r, c)
\* A unit in the last column but not in the first, last row or first row of
\* a frame whose width is not a multiple of 8: its right padding is the
\* sentinel, its left, top and bottom padding is copied.
C20_Witness ==
  /\ fn_call.function = "PrepareCdefBlock"
  /\ fn_result.done
  /\ fn_call.width % 8 # 0
  /\ fn_call.column_64x64 > 0
  /\ fn_call.column_64x64 + fn_call.block_width4x4 = fn_call.columns4x4
  /\ fn_call.row_64x64 > 0
  /\ fn_call.row_64x64 + fn_call.block_height4x4 < fn_call.rows4x4
  /\ CdefCell(0, CdefBlockWidth) = MemsetTo(kCdefLargeValue)
  /\ CdefCell(-1, -1) = CdefSource(-1, -1)
  /\ CdefCell(CdefBlockHeight, 0) = CdefSource(CdefBlockHeight, 0)

\* ---------------------------------------------------------------------------
\* The masks of one row are pairwise disjoint.
MutuallyExclusive(masks) ==
  /\ BitAnd(masks[1], masks[2]) = 0
  /\ BitAnd(masks[1], masks[3]) = 0
  /\ BitAnd(masks[2], masks[3]) = 0

\* The row4x4 of the unit the r-th row of the last pass over the edges was.
DeblockRowOf(r) ==
  fn_result.row4x4 - (fn_result.rows - r + 1) * 2 ^ fn_call.subsampling

\* The filter calls of the last pass on an edge of a row.
CallsOnEdge(row4x4, edge) ==
  {i \in 1..Len(fn_result.calls) :
     fn_result.calls[i].row = row4x4 /\ fn_result.calls[i].edge = edge}

C21_HorizontalTwoEdges ==
  /\ fn_call.function = "HorizontalDeblockFilter"
  /\ fn_result.rows = 1
  /\ Len(fn_result.calls) = 3
  /\ fn_result.calls[1].size = kLoopFilterTransformSizeId16x16
  /\ fn_result.calls[2].size = kLoopFilterTransformSizeId16x16
  /\ fn_result.calls[3].size = kLoopFilterTransformSizeId8x8
  /\ fn_call.subsampling = 1
C21_VerticalTwoRows ==
  /\ fn_call.function = "VerticalDeblockFilter"
  /\ fn_result.rows = 2
  /\ \E i, j \in 1..Len(fn_result.calls) :
       /\ fn_result.calls[i].edge = fn_result.calls[j].edge
       /\ fn_result.calls[i].row # fn_result.calls[j].row
       /\ fn_result.calls[i].size = kLoopFilterTransformSizeId8x8
       /\ fn_result.calls[j].size = kLoopFilterTransformSizeId4x4
C22_SgrWeightsSumToUnity ==
  (fn_call.function = "SelfGuidedFilter" /\ fn_result.done) =>
    LET w == fn_result.weights
    IN  /\ w.pass = "BoxFilterProcess" =>
             /\ w.w0 = fn_call.multiplier[1]
             /\ w.w1 = fn_call.multiplier[2]
             /\ w.w2 = 2 ^ kSgrProjPrecisionBits
                         - fn_call.multiplier[1] - fn_call.multiplier[2]
             /\ w.w0 + w.w1 + w.w2 = 2 ^ kSgrProjPrecisionBits
        /\ w.pass = "BoxFilterProcessPass2" =>
             /\ w.w1 = fn_call.multiplier[2]
             /\ w.w0 + w.w1 = 2 ^ kSgrProjPrecisionBits

\* BoxFilterProcess has run with both multipliers at the bottom of their
\* ranges, where w2 is at its largest.
C22_Witness ==
  /\ fn_call.function = "SelfGuidedFilter"
  /\ fn_result.done
  /\ fn_result.weights.pass = "BoxFilterProcess"
  /\ fn_call.multiplier = kSgrProjMultiplierMin
  /\ fn_result.weights.w2 = 2 ^ (kSgrProjPrecisionBits + 1)

\* ---------------------------------------------------------------------------
\* Every unit of the pass has been filtered, by one thread or more, and none
\* is being filtered.
DeblockPassFinished(pass) ==
  \A job \in 1..DeblockTotalJobs(pf_cfg) :
    /\ pf_log[pass][job].finished >= 1
    /\ pf_log[pass][job].finished = pf_log[pass][job].begun

\* The step begins the filtering of a unit of the pass.
DeblockBegins(pass) ==
  \E job \in 1..DeblockTotalJobs(pf_cfg) :
    pf_log'[pass][job].begun > pf_log[pass][job].begun

\* C23: in ApplyDeblockFilterThreaded no thread begins to filter the
\* horizontal edges of a unit before the vertical edges of every unit of
\* every plane have been filtered, and the function returns only once the
\* horizontal edges of every unit have been filtered.
C23_DeblockPassBarrier ==
  [][ pf_cfg.mode = "ApplyDeblockFilterThreaded" =>
        /\ DeblockBegins(2) => DeblockPassFinished(1)
        /\ pf_pc'.at = "done" => DeblockPassFinished(2) ]_vars

\* A thread of the pool filters horizontal edges of a unit while the current
\* thread filters those of another one, in a frame of more than one unit.
C23_Witness ==
  /\ pf_cfg.mode = "ApplyDeblockFilterThreaded"
  /\ pf_pc.at = "filter"
  /\ pf_pc.pass = 2
  /\ \E w \in 1..Len(pf_jobs) :
       /\ pf_jobs[w].at = "filter"
       /\ pf_jobs[w].pass = 2
       /\ pf_jobs[w].job_index > pf_pc.job_index
  /\ DeblockPassFinished(1)

\* ---------------------------------------------------------------------------
\* The passes the current thread has left behind.
DeblockPassesOver ==
  {pass \in 1..Len(LoopFilterTypes) :
     pass < pf_pc.pass \/ pf_pc.at = "done"}

\* No job index of a pass is taken by two threads, and a pass that is over
\* has had each of its job indices filtered once.
DeblockJobsOnce ==
  pf_cfg.mode = "ApplyDeblockFilterThreaded" =>
    \A pass \in 1..Len(LoopFilterTypes), job \in 1..DeblockTotalJobs(pf_cfg) :
      /\ pf_log[pass][job].begun <= 1
      /\ pass \in DeblockPassesOver =>
           pf_log[pass][job].begun = 1 /\ pf_log[pass][job].finished = 1

\* Every thread has left DeblockFilterWorker and the function has returned.
DeblockWorkersOver ==
  /\ pf_pc.at = "done"
  /\ Len(pf_jobs) = Len(LoopFilterTypes) * pf_cfg.num_workers
  /\ \A w \in 1..Len(pf_jobs) : pf_jobs[w].at = "done"

\* C28: in each pass, however the workers' fetch_add calls on job_counter
\* interleave, every job index below total_jobs is filtered by one worker
\* and one only, and every worker leaves its loop: the function returns with
\* all workers over.
C28_JobClaiming == []DeblockJobsOnce /\ <>[]DeblockWorkersOver

\* All workers of the pool and the current thread are filtering units of the
\* vertical pass at once.
C28_Witness ==
  /\ pf_cfg.mode = "ApplyDeblockFilterThreaded"
  /\ pf_cfg.num_workers = MaxWorkers
  /\ pf_pc.at = "filter"
  /\ pf_pc.pass = 1
  /\ \A w \in 1..MaxWorkers : pf_jobs[w].at = "filter"
  /\ Len(pf_jobs) = MaxWorkers

\* ---------------------------------------------------------------------------
\* The motion vectors of the neighbours' inter references, in the order the
\* two passes come by them, that are of the block's reference frame j
\* (same), or of another frame and negated when the sign biases differ.
RECURSIVE ExtraHits(_, _, _)
ExtraHits(blocks, j, same) ==
  IF blocks = << >> THEN << >>
  ELSE
    LET bp == Head(blocks)
        frame == fn_call.reference_frame[j]
        bias == fn_call.reference_frame_sign_bias
        hit(i) ==
          IF bp.reference_frame[i] <= kReferenceFrameIntra THEN << >>
          ELSE IF bp.reference_frame[i] = frame
            THEN (IF same THEN <<bp.mv[i]>> ELSE << >>)
          ELSE IF same THEN << >>
          ELSE IF bias[bp.reference_frame[i]] # bias[frame]
            THEN <<-bp.mv[i]>>
          ELSE <<bp.mv[i]>>
    IN  hit(1) \o hit(2) \o ExtraHits(Tail(blocks), j, same)

\* The two motion vectors ExtraSearch is to come up with for reference j:
\* same-reference hits first, then the others, then the global one.
ExtraExpected(j) ==
  SubSeq(ExtraHits(fn_call.above \o fn_call.left, j, TRUE)
           \o ExtraHits(fn_call.above \o fn_call.left, j, FALSE)
           \o <<fn_call.global_mv[j], fn_call.global_mv[j]>>, 1, 2)
ExtraExpectedEntry(count) == <<ExtraExpected(1)[count], ExtraExpected(2)[count]>>

\* ref_mv_stack[0] and ref_mv_stack[1] hold motion vectors that were written:
\* mv[0], and mv[1] as well in compound prediction.
ExtraBothPopulated ==
  \A i \in 0..1 :
    /\ fn_result.after.ref_mv_stack[i].written[1]
    /\ fn_call.is_compound => fn_result.after.ref_mv_stack[i].written[2]

\* In compound prediction the entries ExtraSearch writes are put together
\* per reference from same-reference hits, different-reference hits and the
\* global motion vector, in that order; an entry the scans found stays.
ExtraCompoundOrder ==
  fn_call.is_compound =>
    IF fn_call.num_mv_found = 0
      THEN \A i \in 0..1 :
             fn_result.after.ref_mv_stack[i].mv = ExtraExpectedEntry(i + 1)
      ELSE /\ fn_result.after.ref_mv_stack[0] = fn_result.before.ref_mv_stack[0]
           /\ fn_result.after.ref_mv_stack[1].mv =
                IF ExtraExpectedEntry(1) = fn_result.before.ref_mv_stack[0].mv
                  THEN ExtraExpectedEntry(2)
                  ELSE ExtraExpectedEntry(1)

\* In single prediction the stack gets the neighbours' sign-adjusted motion
\* vectors that are not in it, until it holds two (a block with two
\* references may bring it to three), and the entries below 2 that are left
\* are global_mv[0]; num_mv_found counts the former only.
ExtraSingleCount ==
  ~fn_call.is_compound =>
    LET hits == ExtraHits(fn_call.above \o fn_call.left, 1, TRUE)
                  \o ExtraHits(fn_call.above \o fn_call.left, 1, FALSE)
        stack == fn_result.after.ref_mv_stack
        count == fn_result.ref_mv_count
    IN  /\ count \in fn_call.num_mv_found..3
        /\ \A i \in 0..(fn_call.num_mv_found - 1) :
             stack[i] = fn_result.before.ref_mv_stack[i]
        /\ \A i \in fn_call.num_mv_found..(count - 1) :
             /\ \E h \in 1..Len(hits) : hits[h] = stack[i].mv[1]
             /\ \A k \in 0..(i - 1) : stack[k].mv[1] # stack[i].mv[1]
        /\ \A i \in count..1 : stack[i].mv[1] = fn_call.global_mv[1]
        /\ count < 2 =>
             \A h \in 1..Len(hits) :
               \E i \in 0..(count - 1) : stack[i].mv[1] = hits[h]

\* C24 as stated: after ExtraSearch both entries are populated and
\* ref_mv_count is 2, in compound and in single prediction, the compound
\* entries being put together in the order same reference, different
\* reference, global.
C24_Original ==
  (fn_call.function = "ExtraSearch" /\ fn_result.done) =>
    /\ ExtraBothPopulated
    /\ fn_result.ref_mv_count = 2
    /\ ExtraCompoundOrder

\* C24: when the scans of FindMvStack have found fewer than 2 candidates,
\* ExtraSearch leaves ref_mv_stack[0] and ref_mv_stack[1] populated.  In
\* compound prediction ref_mv_count is 2 and the entries are put together
\* per reference from same-reference hits, then different-reference
\* (sign-adjusted) hits, then the global motion vector.  In single
\* prediction ref_mv_count is the number of candidates found, anything from
\* 0 to 3, and the entries below 2 that no candidate fills are global_mv[0].
C24_ExtraSearchResult ==
  (fn_call.function = "ExtraSearch" /\ fn_result.done) =>
    /\ ExtraBothPopulated
    /\ fn_call.is_compound => fn_result.ref_mv_count = 2
    /\ ExtraCompoundOrder
    /\ ExtraSingleCount

\* Compound prediction with nothing found by the scans and one neighbour
\* with the block's first reference only, the sign biases differing: entry 0
\* is the same-reference hit and the negated different-reference hit, entry
\* 1 the global motion vectors.
C24_Witness ==
  /\ fn_call.function = "ExtraSearch"
  /\ fn_result.done
  /\ fn_call.is_compound
  /\ fn_call.num_mv_found = 0
  /\ fn_result.ref_mv_count = 2
  /\ fn_result.after.ref_mv_stack[0].mv = <<1, -1>>
  /\ fn_result.after.ref_mv_stack[1].mv = fn_call.global_mv

\* Single prediction with nothing found by the scans or by ExtraSearch: both
\* entries are global_mv[0] and ref_mv_count is 0.
C24_SingleGlobalOnly ==
  /\ fn_call.function = "ExtraSearch"
  /\ fn_result.done
  /\ ~fn_call.is_compound
  /\ fn_result.ref_mv_count = 0
  /\ ExtraBothPopulated

\* ---------------------------------------------------------------------------
\* The sample AddSample is to store for a neighbour: the middle of the
\* neighbour's block in 1/8 pixels, and the same moved by its motion vector.
WarpSampleOf(sample) ==
  LET pixels == 4 * sample.size4x4
      top == pixels * ((fn_call.row4x4 + sample.delta[1]) \div sample.size4x4)
      left_edge ==
        pixels * ((fn_call.column4x4 + sample.delta[2]) \div sample.size4x4)
      y == 8 * (top + pixels \div 2 - 1)
      x == 8 * (left_edge + pixels \div 2 - 1)
  IN  <<y, x, y + sample.mv[1], x + sample.mv[2]>>

\* C25: on return from FindWarpSamples, with the counters starting at 0,
\* num_samples_scanned is at most kMaxLeastSquaresSamples, num_warp_samples
\* is at most num_samples_scanned and is 0 only if num_samples_scanned is 0;
\* when samples were scanned and num_warp_samples is 1, candidates[0] is a
\* sample that was written, and it is the first scanned sample when that one
\* passed the threshold test or no sample did.
C25_WarpSampleCounts ==
  (fn_call.function = "FindWarpSamples" /\ fn_result.done) =>
    /\ fn_result.num_samples_scanned <= kMaxLeastSquaresSamples
    /\ fn_result.num_warp_samples <= fn_result.num_samples_scanned
    /\ fn_result.num_warp_samples = 0 => fn_result.num_samples_scanned = 0
    /\ \A k \in 0..(fn_result.num_warp_samples - 1) :
         /\ fn_result.candidates[k] # <<0, 0, 0, 0>>
         /\ fn_result.candidates[k][3] - fn_result.candidates[k][1]
              <= kWarpValidThreshold(fn_call.width4x4, fn_call.height4x4)
              \/ (k = 0 /\ fn_result.num_warp_samples = 1)
    /\ (/\ fn_result.num_samples_scanned > 0
        /\ fn_result.candidates[0][3] - fn_result.candidates[0][1]
             > kWarpValidThreshold(fn_call.width4x4, fn_call.height4x4)) =>
         /\ fn_result.num_warp_samples = 1
         /\ fn_result.candidates[0] = WarpSampleOf(fn_result.first)

\* FindWarpSamples has returned with several samples scanned of which none
\* passed the threshold test: num_warp_samples is 1 and candidates[0] is the
\* first of them.
C25_Witness ==
  /\ fn_call.function = "FindWarpSamples"
  /\ fn_result.done
  /\ fn_result.num_samples_scanned > 2
  /\ fn_result.num_warp_samples = 1
  /\ fn_result.candidates[0][3] - fn_result.candidates[0][1] = 17
  /\ fn_result.candidates[0] = WarpSampleOf(fn_result.first)

\* FindWarpSamples has returned with kMaxLeastSquaresSamples samples scanned.
C25_AllScanned ==
  /\ fn_call.function = "FindWarpSamples"
  /\ fn_result.done
  /\ fn_result.num_samples_scanned = kMaxLeastSquaresSamples
  /\ fn_result.num_warp_samples = kMaxLeastSquaresSamples

\* ---------------------------------------------------------------------------
\* The edge of the call is on the frame's top row or left column.
EdgeOnFrameBorder == fn_call.position4x4 = 0

\* The previous position belongs to the block of the current one.
EdgeInsideBlock ==
  fn_call.bp.id <= GetDeblockPosition(fn_call.position4x4,
                                      IF fn_call.luma THEN 0
                                      ELSE fn_call.subsampling)
                     - (IF fn_call.luma THEN 1
                        ELSE 1 + fn_call.subsampling)

\* The levels of the current and of the previous block for a plane.
EdgeLevelThis(plane) ==
  fn_call.bp.deblock_filter_level[
    IF plane = "kPlaneU" THEN 2
    ELSE IF plane = "kPlaneV" THEN 3
    ELSE IF fn_call.type = "kLoopFilterTypeHorizontal" THEN 1 ELSE 0]
EdgeLevelPrev(plane) ==
  fn_call.bp_prev.deblock_filter_level[
    IF plane = "kPlaneU" THEN 2
    ELSE IF plane = "kPlaneV" THEN 3
    ELSE IF fn_call.type = "kLoopFilterTypeHorizontal" THEN 1 ELSE 0]

\* need_filter as it is to be for a plane.
EdgeNeedsFilter(plane) ==
  /\ ~EdgeOnFrameBorder
  /\ ~(EdgeLevelThis(plane) = 0 /\ EdgeLevelPrev(plane) = 0)
  /\ ~(fn_call.bp.skip /\ fn_call.bp.is_inter /\ EdgeInsideBlock)

\* The dimension across the edge, in pixels, of the transforms on its two
\* sides.
EdgeTransformDimensions(plane) ==
  LET position == fn_call.position4x4
      pixels(transform_size) ==
        IF transform_size = "kTransformSize4x4" THEN 4
        ELSE IF (transform_size = "kTransformSize4x8")
                  = (fn_call.type = "kLoopFilterTypeHorizontal") THEN 8
        ELSE 4
  IN  IF plane = "kPlaneY"
        THEN <<pixels(fn_call.inter_transform_sizes_[position]),
               pixels(fn_call.inter_transform_sizes_[position - 1])>>
        ELSE <<pixels(fn_call.bp.uv_transform_size),
               pixels(fn_call.bp_prev.uv_transform_size)>>

\* What the claim says of one result for a plane.
EdgeInfoAsClaimed(info, plane) ==
  /\ info.need_filter = EdgeNeedsFilter(plane)
  /\ info.need_filter =>
       /\ info.level = IF EdgeLevelThis(plane) # 0 THEN EdgeLevelThis(plane)
                       ELSE EdgeLevelPrev(plane)
       /\ info.level > 0
       /\ \E d \in {EdgeTransformDimensions(plane)} :
            /\ info.filter_length \in {d[1], d[2]}
            /\ info.filter_length <= d[1]
            /\ info.filter_length <= d[2]

C26_BlockBoundaryFiltered ==
  /\ fn_call.function = "GetDeblockFilterEdgeInfo"
  /\ fn_result.done
  /\ fn_call.luma
  /\ ~EdgeInsideBlock
  /\ fn_call.bp.skip /\ fn_call.bp.is_inter
  /\ fn_call.bp_prev.skip /\ fn_call.bp_prev.is_inter
  /\ fn_result.deblock["kPlaneY"].need_filter
  /\ fn_result.post_filter["kPlaneY"].need_filter
  /\ fn_result.deblock["kPlaneY"].level = 2
  /\ fn_result.deblock["kPlaneY"].filter_length = 4
  /\ fn_result.deblock["kPlaneY"].step = 8

\* ---------------------------------------------------------------------------
\* The sections of the threaded path that are windows of ApplyCdefThreaded
\* or ApplyLoopRestorationThreaded.
IsWindowSection(section) ==
  section.function \in {"ApplyCdef", "ApplyLoopRestoration"}
\* The current thread is in a window, between the construction of
\* pending_jobs and the copy of threaded_window_buffer_.
InWindow ==
  /\ pf_cfg.mode = "threaded"
  /\ pf_pc.at = "run"
  /\ IsWindowSection(ApplyFilteringThreaded(pf_cfg)[pf_pc.section])
\* The row jobs of the window that the pool has not finished.
WindowJobsUnfinished ==
  {j \in 1..Len(pf_jobs) :
     pf_jobs[j].section = pf_pc.section /\ pf_jobs[j].status # "done"}

\* Every window hands the pool as many row jobs as its BlockingCounter
\* starts with and keeps at least one for the calling thread, and in a window
\* the counter is the number of pool jobs that have not finished.
WindowJobsCounted ==
  pf_cfg.mode = "threaded" =>
    /\ \A i \in 1..Len(ApplyFilteringThreaded(pf_cfg)) :
         LET section == ApplyFilteringThreaded(pf_cfg)[i]
         IN  IsWindowSection(section) =>
               /\ section.pool = section.pending
               /\ section.current >= 1
    /\ InWindow => pf_pending = Cardinality(WindowJobsUnfinished)

\* The current thread leaves a window, for the copy of
\* threaded_window_buffer_, only when it has run its own row jobs and the
\* pool has finished the others.
WindowCopyAfterJobs ==
  (InWindow /\ pf_pc'.at # "run") =>
    /\ pf_pc.current = 0
    /\ WindowJobsUnfinished = {}

\* C27: in ApplyCdefThreaded and ApplyLoopRestorationThreaded every window,
\* the first one of a plane and the last partial one included, hands the
\* thread pool as many row jobs as the BlockingCounter's initial value
\* jobs_for_threadpool, pending_jobs.Wait() returns in every window (the
\* calling thread gets to the end of ApplyFilteringThreaded), and the copy
\* of threaded_window_buffer_ starts only after every row job of the window
\* has finished.
C27_WindowJobAccounting ==
  /\ []WindowJobsCounted
  /\ [][WindowCopyAfterJobs]_vars
  /\ <>(pf_cfg.mode = "threaded" => pf_pc.at = "done")

\* The first window of a chroma plane with three row jobs, the first one
\* shorter and the last one partial: two are with the pool, one of them
\* running, and the calling thread has run its own.
C27_Witness ==
  /\ InWindow
  /\ ApplyFilteringThreaded(pf_cfg)[pf_pc.section].function
       = "ApplyLoopRestoration"
  /\ ApplyFilteringThreaded(pf_cfg)[pf_pc.section].row = 0
  /\ ApplyFilteringThreaded(pf_cfg)[pf_pc.section].pool = 2
  /\ pf_pc.current = 0
  /\ pf_pending = 2
  /\ \E j \in WindowJobsUnfinished : pf_jobs[j].status = "running"

\* ---------------------------------------------------------------------------
\* The rows of the plane that the units visited so far restore, and how
\* often each of them is restored.
RestoredTimes(row) ==
  Cardinality({i \in 1..Len(fn_result.units) :
                 /\ fn_result.units[i].y <= row
                 /\ row < fn_result.units[i].y + fn_result.units[i].height})
RestorationPlaneHeight ==
  (fn_call.height + fn_call.subsampling_y) \div (1 + fn_call.subsampling_y)

\* C29: the processing units visited by ApplyLoopRestorationThreaded, and by
\* ApplyLoopRestorationForOneSuperBlockRow over the calls for all superblock
\* rows and the extra call for the last one, are not empty, each starts
\* where the one before it ended, the first starts at row 0 and is
\* kRestorationUnitOffset >> subsampling_y shorter than a unit (or ends with
\* the plane), and at the end every row of [0, plane_height) has been
\* restored exactly once and no other row has.
C29_RestorationRowCoverage ==
  fn_call.function = "ApplyLoopRestoration" =>
    LET units == fn_result.units
        unit_height == IF fn_call.subsampling_y = 1 THEN 32 ELSE 64
        first_height == IF fn_call.subsampling_y = 1 THEN 28 ELSE 56
    IN  /\ \A i \in 1..Len(units) :
             /\ units[i].height > 0
             /\ units[i].y + units[i].height <= RestorationPlaneHeight
             /\ units[i].height <= unit_height
             /\ units[i].y =
                  IF i = 1 THEN 0 ELSE units[i - 1].y + units[i - 1].height
        /\ units # << >> =>
             units[1].height = Min(first_height, RestorationPlaneHeight)
        /\ \A row \in 0..(RestorationPlaneHeight - 1) :
             /\ RestoredTimes(row) <= 1
             /\ fn_result.done => RestoredTimes(row) = 1

\* A chroma plane of 64 rows has been restored in two superblock rows of 64
\* luma rows, in three units: the last one, of 4 rows, is of the extra call.
C29_Witness ==
  /\ fn_call.function = "ApplyLoopRestoration"
  /\ fn_result.done
  /\ ~fn_call.threaded
  /\ fn_call.subsampling_y = 1
  /\ fn_call.height = 127
  /\ fn_call.sb4x4 = 16
  /\ Len(fn_result.units) = 3
  /\ fn_result.units[3] = [y |-> 60, height |-> 4]

\* A luma plane has been restored in two windows, the first of them
\* shorter.
C29_TwoWindows ==
  /\ fn_call.function = "ApplyLoopRestoration"
  /\ fn_result.done
  /\ fn_call.threaded
  /\ fn_call.subsampling_y = 0
  /\ fn_call.window_buffer_height_ = 128
  /\ Len(fn_result.units) = 3
  /\ fn_result.units[3].y = 120

\* ---------------------------------------------------------------- C30
\* The entries one call of ApplyFilteringForOneSuperBlockRow adds to the log.
CallsOfStep == SubSeq(pf_log', Len(pf_log) + 1, Len(pf_log'))

\* The rows of a plane that progress p declares final: the rows below p, and
\* below the matching row of a subsampled chroma plane.
FinalBelow(cfg, plane, p) == p \div 2 ^ SubsamplingY(cfg, plane)

\* No invocation of the step writes a row that the value returned by the call
\* before it declared final, in any plane.
StepKeepsFinalRows ==
  pf_pc.value >= 0 =>
    \A i \in 1..Len(CallsOfStep), plane \in 1..pf_cfg.planes :
      \A row \in RowsWritten(pf_cfg, plane, CallsOfStep[i]) :
        row >= FinalBelow(pf_cfg, plane, pf_pc.value)

\* The value a call returns: -1 for the call before row 0, height_ for the
\* last superblock row, never less than the value before.
StepProgress ==
  /\ pf_pc'.value >= pf_pc.value
  /\ pf_pc.row4x4 < 0 => pf_pc'.value = -1
  /\ pf_pc'.at = "done" => pf_pc'.value = pf_cfg.height

\* C30: over the calls of ApplyFilteringForOneSuperBlockRow for the successive
\* superblock rows of a frame the returned progress never decreases (-1 for
\* row4x4 < 0, height_ for the last row), and a call writes no luma row, and no
\* matching chroma row, below the progress the call before it returned, in
\* deblocking, CDEF, SuperRes, loop restoration or border extension; the
\* progress being monotonic, no row below any returned p is written later.
C30_ProgressFinal ==
  [][pf_cfg.mode = "superblock_row" => StepProgress /\ StepKeepsFinalRows]_vars

\* A frame of four superblock rows with loop restoration of Y and border
\* extension in the loop has been filtered: the call for the third row
\* returned 120, and the last call restored from row 120 on.
C30_Witness ==
  /\ pf_cfg.mode = "superblock_row"
  /\ pf_pc.at = "done"
  /\ pf_cfg.rows4x4 = 64 /\ pf_cfg.sb4x4 = 16
  /\ pf_cfg.in_loop /\ pf_cfg.refresh
  /\ DoRestorationOf(pf_cfg) /\ DoDeblock(pf_cfg) /\ DoCdef(pf_cfg)
  /\ ExtendBordersProgress(pf_cfg, -1, 16, 16) = 120
  /\ \E i \in 1..Len(pf_log) :
       /\ pf_log[i].call = 48
       /\ pf_log[i].function = "ApplyLoopRestoration"
       /\ 120 \in RowsWritten(pf_cfg, 1, pf_log[i])
       /\ 119 \notin RowsWritten(pf_cfg, 1, pf_log[i])

==============================================================================
